---- MODULE Spec2Model ----
(***************************************************************************)
(* A model of sqlr: the template parser / parameter binder (parser.go and  *)
(* its refactored variant), the value resolver, the flattened field index  *)
(* and the Builder that feeds them (sqlr.go).                              *)
(*                                                                         *)
(* Go strings are sequences of one-character strings.  Go indices are      *)
(* 0-based; At and Sub translate them.                                     *)
(***************************************************************************)
EXTENDS Integers, Sequences, FiniteSets, TLC

(***************************************************************************)
(* Bounds of the model.                                                    *)
(***************************************************************************)
\* segments per lexical template
MaxSegs == 1
\* placeholders per binding template
MaxPh == 2
\* renders of one statement (Preview, Preview, ... on the same SQLR)
MaxRenders == 2
\* Bind calls on one builder
MaxBinds == 3
\* elements of a bound slice or array
MaxElems == 2

(***************************************************************************)
(* Strings.                                                                *)
(***************************************************************************)
At(s, idx) == s[idx + 1]
\* s[from:to]
Sub(s, from, to) == SubSeq(s, from + 1, to)

Lower == {"a","b","c","d","e","f","g","h","i","j","k","l","m",
          "n","o","p","q","r","s","t","u","v","w","x","y","z"}
Upper == {"A","B","C","D","E","F","G","H","I","J","K","L","M",
          "N","O","P","Q","R","S","T","U","V","W","X","Y","Z"}
Digit == {"0","1","2","3","4","5","6","7","8","9"}
Space == {" ", "\t", "\n", "\r"}
\* the backtick character (it cannot be written inside a TLA+ string)
Backtick == "BACKTICK"

isAlphaUnderscore(b) == b \in Upper \/ b \in Lower \/ b = "_"
isAlphaNumUnderscore(b) == isAlphaUnderscore(b) \/ b \in Digit

RECURSIVE TrimLeft(_)
TrimLeft(s) == IF s # <<>> /\ Head(s) \in Space THEN TrimLeft(Tail(s)) ELSE s
RECURSIVE TrimRight(_)
TrimRight(s) ==
    IF s # <<>> /\ s[Len(s)] \in Space THEN TrimRight(SubSeq(s, 1, Len(s) - 1)) ELSE s
\* strings.TrimSpace
TrimSpace(s) == TrimRight(TrimLeft(s))

\* strings.Index(s[from:], sub): offset of the first occurrence, or -1
RECURSIVE IndexFrom(_, _, _, _)
IndexFrom(s, from, sub, p) ==
    IF from + p + Len(sub) > Len(s) THEN -1
    ELSE IF Sub(s, from + p, from + p + Len(sub)) = sub THEN p
    ELSE IndexFrom(s, from, sub, p + 1)

DigitChars == <<"0","1","2","3","4","5","6","7","8","9">>
\* strconv.AppendInt(tmp[:0], idx, 10) for idx >= 0
RECURSIVE AppendInt(_)
AppendInt(idx) ==
    IF idx < 10 THEN <<DigitChars[idx + 1]>>
    ELSE AppendInt(idx \div 10) \o <<DigitChars[(idx % 10) + 1]>>

Dialects == {"Postgres", "MySQL", "SQLite", "SQLServer"}

\* the token writePlaceholder appends to the buffer
writePlaceholder(d, idx) ==
    CASE d = "Postgres" -> <<"$">> \o AppendInt(idx)
      [] d = "SQLServer" -> <<"@", "p">> \o AppendInt(idx)
      [] OTHER -> <<"?">>

\* readDollarTag(s[i:]): the full tag "$tag$" and whether one starts at i
RECURSIVE TagEnd(_, _)
TagEnd(s, j) == IF j < Len(s) /\ isAlphaNumUnderscore(At(s, j)) THEN TagEnd(s, j + 1) ELSE j
readDollarTag(s, i) ==
    IF Len(s) - i < 2 \/ At(s, i) # "$" THEN [tag |-> <<>>, ok |-> FALSE]
    ELSE LET j == TagEnd(s, i + 1) IN
         IF j < Len(s) /\ At(s, j) = "$" THEN [tag |-> Sub(s, i, j + 1), ok |-> TRUE]
         ELSE [tag |-> <<>>, ok |-> FALSE]

\* readCols(q, i), i at '{': [k2, cols, ok]
RECURSIVE ReadColsFrom(_, _, _, _)
ReadColsFrom(s, i, start, cols) ==
    IF i >= Len(s) THEN [k2 |-> -1, cols |-> <<>>, ok |-> FALSE]
    ELSE IF At(s, i) = "}" THEN
        IF start < i THEN
            LET tok == TrimSpace(Sub(s, start, i)) IN
            IF tok = <<>> THEN [k2 |-> -1, cols |-> <<>>, ok |-> FALSE]
            ELSE [k2 |-> i + 1, cols |-> Append(cols, tok), ok |-> TRUE]
        ELSE [k2 |-> i + 1, cols |-> cols, ok |-> TRUE]
    ELSE IF At(s, i) = "," THEN
        LET tok == TrimSpace(Sub(s, start, i)) IN
        IF tok = <<>> THEN [k2 |-> -1, cols |-> <<>>, ok |-> FALSE]
        ELSE ReadColsFrom(s, i + 1, i + 1, Append(cols, tok))
    ELSE ReadColsFrom(s, i + 1, start, cols)
readCols(s, i) == ReadColsFrom(s, i + 1, i + 1, <<>>)

\* the end of the identifier that starts at j
RECURSIVE NameEnd(_, _)
NameEnd(s, k) == IF k < Len(s) /\ isAlphaNumUnderscore(At(s, k)) THEN NameEnd(s, k + 1) ELSE k

(***************************************************************************)
(* Go values as reflect sees them.  kind is the reflect.Kind; a value      *)
(* whose type implements driver.Valuer carries valuer |-> TRUE.            *)
(***************************************************************************)
Nil == [kind |-> "nil"]
NilPtr == [kind |-> "nilptr"]
IntV(x) == [kind |-> "int", ival |-> x]
Ptr(v) == [kind |-> "ptr", to |-> v]
\* []T: elem is the element kind
SliceOf(ek, es) == [kind |-> "slice", elem |-> ek, named |-> FALSE, elems |-> es]
\* type Blob []byte
NamedSliceOf(ek, es) == [kind |-> "slice", elem |-> ek, named |-> TRUE, elems |-> es]
ArrayOf(ek, es) == [kind |-> "array", elem |-> ek, named |-> FALSE, elems |-> es]
\* a value of a type with a Value() method (mockArray, pq.Array)
ValuerOf(v) == [kind |-> "struct", type |-> "mockArray", valuer |-> TRUE, f |-> <<v>>]
\* a slice type that itself implements driver.Valuer (pq.Int64Array)
ValuerSlice(es) == [kind |-> "slice", elem |-> "int", named |-> TRUE, valuer |-> TRUE, elems |-> es]
StructOf(t, fs) == [kind |-> "struct", type |-> t, f |-> fs]
\* keyk: "string" (map[string]T), "defstring" (type K string), "any", "int";
\* plain: the type is exactly map[string]any
MapOf(keyk, plain, m) == [kind |-> "map", keyk |-> keyk, plain |-> plain, m |-> m]
P(m) == MapOf("string", TRUE, m)
\* scalar{v}: the wrapper Scalar() returns
Scalar(v) == [kind |-> "scalar", inner |-> v]
ambiguousSentinel(name) == [kind |-> "ambiguous", name |-> name]

IsValuer(v) == "valuer" \in DOMAIN v /\ v.valuer
IsBytes(v) == v.kind = "slice" /\ v.elem = "uint8" /\ ~v.named

\* deIndirect: unwrap pointers down to a concrete value or a nil pointer
RECURSIVE deIndirect(_)
deIndirect(v) == IF v.kind = "ptr" THEN deIndirect(v.to) ELSE v

(***************************************************************************)
(* Record types: name -> declared fields.  A field has its Go name, the    *)
(* comma-separated parts of its db tag (<<>> when there is no tag),        *)
(* whether it is exported and its type.                                    *)
(***************************************************************************)
TInt == [k |-> "int"]
TIntSlice == [k |-> "slice"]
TString == [k |-> "string"]
TStruct(n) == [k |-> "struct", name |-> n]
TPtr(e) == [k |-> "ptr", elem |-> e]
\* a struct type T for which *T implements sql.Scanner
TScanner == [k |-> "struct", name |-> "NullX", scanner |-> TRUE]
TTime == [k |-> "struct", name |-> "Time", pkg |-> "time"]
\* *Upper, a pointer type that implements sql.Scanner
TScannerPtr == [k |-> "ptr", elem |-> [k |-> "string", name |-> "Upper"], scanner |-> TRUE]

Field(name, tag, ft) == [name |-> name, tag |-> tag, exported |-> TRUE, ft |-> ft]
Unexported(name, ft) == [name |-> name, tag |-> <<>>, exported |-> FALSE, ft |-> ft]

nA == <<"a">>
nB == <<"b">>
nC == <<"c">>
nId == <<"i", "d">>
nIds == <<"i", "d", "s">>
nRows == <<"r", "o", "w", "s">>
nScalar == <<"s", "c", "a", "l", "a", "r">>
nDash == <<"-">>
nX == <<"X">>
nZ == <<"z">>
nName == <<"n", "a", "m", "e">>
nS == <<"s">>

TypeDefs ==
    [ \* type A struct { ID int `db:"a"` }
      A |-> << Field(nId, <<nA>>, TInt) >>,
      \* type B struct { ID int `db:"a"`; Bv int `db:"b"` }
      B |-> << Field(nId, <<nA>>, TInt), Field(nB, <<>>, TInt) >>,
      \* type C struct { A A; B B }: "a" is exposed by A.ID and by B.ID
      C |-> << Field(nA, <<>>, TStruct("A")), Field(nB, <<>>, TStruct("B")) >>,
      \* type F struct { a int (unexported); IDs []int `db:"b, scalar"`;
      \*                 X int `db:"-"`; Sub *A }
      F |-> << Unexported(nA, TInt),
               Field(nIds, <<nB, <<" ">> \o nScalar>>, TIntSlice),
               Field(nX, <<nDash>>, TInt),
               Field(nC, <<>>, TPtr(TStruct("A"))) >>,
      \* type R struct { A int `db:"a"`; B int `db:"b"` }
      R |-> << Field(nA, <<>>, TInt), Field(nB, <<>>, TInt) >>,
      \* type N struct { Next *N; V int `db:"a"`; T time.Time `db:"b"`; S NullX `db:"c"` }
      N |-> << Field(nId, <<>>, TPtr(TStruct("N"))), Field(nA, <<>>, TInt),
               Field(nB, <<>>, TTime), Field(nC, <<>>, TScanner) >>,
      \* type S struct { A int `db:"a"`; B *int `db:"b"`; U *Upper `db:"c"` }
      S |-> << Field(nA, <<>>, TInt), Field(nB, <<>>, TPtr(TInt)),
               Field(nC, <<>>, TScannerPtr) >>,
      \* type W struct { Sub *S; D NullX `db:"z"` }
      W |-> << Field(nX, <<>>, TPtr(TStruct("S"))), Field(nId, <<nZ>>, TScanner) >>,
      \* type U struct { ID int `db:"id"`; Name string `db:"name"` }
      U |-> << Field(nX, <<nId>>, TInt), Field(nB, <<nName>>, TString) >>,
      \* type V struct { X R; C int `db:"c"` }
      V |-> << Field(nX, <<>>, TStruct("R")), Field(nC, <<>>, TInt) >>,
      \* type Ping struct { P *Pong; V int `db:"a"` }
      \* type Pong struct { P *Ping; V int `db:"b"` }
      Ping |-> << Field(nX, <<>>, TPtr(TStruct("Pong"))), Field(nId, <<nA>>, TInt) >>,
      Pong |-> << Field(nX, <<>>, TPtr(TStruct("Ping"))), Field(nId, <<nB>>, TInt) >>,
      \* type Twin struct { L A; M *A; Z int `db:"a"` }
      Twin |-> << Field(nX, <<>>, TStruct("A")), Field(nC, <<>>, TPtr(TStruct("A"))),
                  Field(nZ, <<nA>>, TInt) >>,
      Time |-> << Unexported(nA, TInt) >>,
      NullX |-> << Field(nA, <<>>, TInt) >>,
      mockArray |-> << Unexported(nA, TInt) >> ]

\* shouldFlatten(ft): descend into a struct or *struct field
shouldFlatten(ft) ==
    IF "scanner" \in DOMAIN ft /\ ft.scanner THEN FALSE
    ELSE LET tt == IF ft.k = "ptr" THEN ft.elem ELSE ft IN
         IF tt.k # "struct" THEN FALSE
         ELSE IF "pkg" \in DOMAIN tt /\ tt.pkg = "time" /\ tt.name = "Time" THEN FALSE
         ELSE TRUE

\* fieldInfo{index, scalar, ambiguous}
fieldInfo(index, scalar, ambiguous) ==
    [index |-> index, scalar |-> scalar, ambiguous |-> ambiguous]

\* the name and the scalar option a field's tag gives
TagName(f) == IF f.tag # <<>> /\ f.tag[1] # <<>> THEN f.tag[1] ELSE f.name
TagScalar(f) ==
    \E p \in 2..Len(f.tag) : TrimSpace(f.tag[p]) = nScalar

RECURSIVE StripPtr(_)
StripPtr(rt) == IF rt.k = "ptr" THEN StripPtr(rt.elem) ELSE rt

\* the leaf branch of walk: record the field or mark the name ambiguous
WalkLeaf(m, name, path, i, scalar) ==
    IF name \in DOMAIN m THEN
        IF ~m[name].ambiguous
        THEN [m EXCEPT ![name] = fieldInfo(<<>>, FALSE, TRUE)]
        ELSE m
    ELSE m @@ (name :> fieldInfo(Append(path, i), scalar, FALSE))

\* walk(rt, path) of fieldIndexMap, from field i on; visited is the set of
\* types being expanded; m is the map built so far
RECURSIVE walk(_, _, _, _, _)
walk(rt0, path, i, visited, m) ==
    LET rt == StripPtr(rt0) IN
    IF rt.k # "struct" \/ (i = 0 /\ rt.name \in visited) THEN m
    ELSE IF i >= Len(TypeDefs[rt.name]) THEN m
    ELSE LET f == TypeDefs[rt.name][i + 1]
             vis == visited \cup {rt.name}
             m1 == IF ~f.exported THEN m
                   ELSE IF f.tag # <<>> /\ f.tag = <<nDash>> THEN m
                   ELSE IF shouldFlatten(f.ft)
                        THEN walk(IF f.ft.k = "ptr" THEN f.ft.elem ELSE f.ft,
                                  Append(path, i), 0, vis, m)
                        ELSE WalkLeaf(m, TagName(f), path, i, TagScalar(f))
         IN walk(rt, path, i + 1, visited, m1)

EmptyMap == [x \in {} |-> Nil]

\* fieldIndexMap(t): column name -> fieldInfo (the cache is transparent)
fieldIndexMap(t) == walk(TStruct(t), <<>>, 0, {}, EmptyMap)

(***************************************************************************)
(* Resolver: values and rows by name from the bound inputs.                *)
(***************************************************************************)
\* reflect.Kind and type of a value; scalar{} and ambiguousSentinel{} are
\* structs without exported fields
Kind(v) == IF v.kind \in {"scalar", "ambiguous"} THEN "struct" ELSE v.kind
TypeName(v) == IF v.kind \in {"scalar", "ambiguous"} THEN "unexportedOnly" ELSE v.type
FieldMapOf(v) ==
    IF TypeName(v) \in DOMAIN TypeDefs THEN fieldIndexMap(TypeName(v)) ELSE EmptyMap

Hit(v) == [ok |-> TRUE, v |-> v]
Miss == [ok |-> FALSE, v |-> Nil]

\* getValueByPathAny(root, path), at step i of the path (1-based)
RECURSIVE ValueByPath(_, _, _)
ValueByPath(v0, path, i) ==
    IF i > Len(path) THEN Miss
    ELSE LET v == deIndirect(v0) IN
         IF v.kind = "nilptr" THEN Hit(Nil)
         ELSE IF Kind(v) # "struct" THEN Miss
         ELSE LET fv == v.f[path[i] + 1] IN
              IF i = Len(path)
              THEN IF fv.kind \in {"nil", "nilptr"} THEN Hit(Nil) ELSE Hit(fv)
              ELSE ValueByPath(fv, path, i + 1)
\* a bug: only the first step of the path is taken
getValueByPathAny_Shallow(root, path) == ValueByPath(root, <<path[1]>>, 1)
getValueByPathAny(root, path) == ValueByPath(root, path, 1)

\* whether reflect converts the string name into a key of this map
KeyConvertible(v) == v.keyk \in {"string", "defstring", "any"}

\* singleLookup(in, name): a :name from one Bind() input
singleLookup(in, name) ==
    IF in.kind = "nil" THEN Miss
    ELSE LET v == deIndirect(in) IN
         IF v.kind = "nilptr" THEN Miss
         ELSE IF v.kind = "map" THEN
             IF (v.plain \/ KeyConvertible(v)) /\ name \in DOMAIN v.m
             THEN Hit(v.m[name]) ELSE Miss
         ELSE IF Kind(v) = "struct" THEN
             LET m == FieldMapOf(v) IN
             IF name \in DOMAIN m THEN
                 IF m[name].ambiguous THEN Hit(ambiguousSentinel(name))
                 ELSE LET val == getValueByPathAny(v, m[name].index).v IN
                      IF m[name].scalar THEN Hit(Scalar(val)) ELSE Hit(val)
             ELSE Miss
         ELSE Miss

\* getColValue(row, col): a column of one row of a row-block
getColValue(row, col) ==
    IF row.kind = "map" /\ row.plain THEN
        IF col \in DOMAIN row.m THEN Hit(row.m[col]) ELSE Miss
    ELSE LET rv == deIndirect(row) IN
         IF rv.kind = "map" THEN
             IF KeyConvertible(rv) /\ col \in DOMAIN rv.m THEN Hit(rv.m[col]) ELSE Miss
         ELSE IF Kind(rv) = "struct" THEN
             LET m == FieldMapOf(rv) IN
             IF col \in DOMAIN m
             THEN Hit(getValueByPathAny(rv, m[col].index).v)
             ELSE Miss
         ELSE Miss

RowsHit(rows) == [ok |-> TRUE, rows |-> rows, panic |-> FALSE]
RowsMiss == [ok |-> FALSE, rows |-> <<>>, panic |-> FALSE]
\* reflect's MapIndex panics on a key that is not assignable to the key type
RowsPanic == [ok |-> FALSE, rows |-> <<>>, panic |-> TRUE]

\* rowsFromSliceValue(v): the elements of a slice of structs or maps
rowsFromSliceValue(v0) ==
    LET v == deIndirect(v0) IN
    IF v.kind # "slice" THEN RowsMiss
    ELSE IF Len(v.elems) = 0 THEN RowsHit(<<>>)
    ELSE LET el == deIndirect(v.elems[1]) IN
         IF el.kind \in {"nil", "nilptr"} THEN RowsMiss
         ELSE IF Kind(el) \in {"struct", "map"} THEN RowsHit(v.elems)
         ELSE RowsMiss

\* singleRowsLookup(in, name): the rows of :name{...} from one Bind() input
singleRowsLookup(in, name) ==
    IF in.kind = "nil" THEN RowsMiss
    ELSE IF in.kind = "map" /\ in.keyk = "defstring" THEN RowsPanic
    ELSE IF in.kind = "map" /\ in.keyk = "string" /\ name \in DOMAIN in.m
         THEN rowsFromSliceValue(in.m[name])
    ELSE IF name = nRows THEN rowsFromSliceValue(in)
    ELSE RowsMiss

\* makeMultiResolver, lookup: inputs[i-1], ..., inputs[0], first hit wins
RECURSIVE lookupFrom(_, _, _)
lookupFrom(inputs, name, i) ==
    IF i < 1 THEN Miss
    ELSE LET r == singleLookup(inputs[i], name) IN
         IF r.ok THEN r ELSE lookupFrom(inputs, name, i - 1)
lookup(inputs, name) == lookupFrom(inputs, name, Len(inputs))

\* makeMultiResolver, rowsLookup
RECURSIVE rowsLookupFrom(_, _, _)
rowsLookupFrom(inputs, name, i) ==
    IF i < 1 THEN RowsMiss
    ELSE LET r == singleRowsLookup(inputs[i], name) IN
         IF r.ok \/ r.panic THEN r ELSE rowsLookupFrom(inputs, name, i - 1)
rowsLookup(inputs, name) == rowsLookupFrom(inputs, name, Len(inputs))

\* parseFastBag(inputs): the last input when it is a non-nil map[string]any
parseFastBag(inputs) ==
    IF Len(inputs) = 0 THEN [ok |-> FALSE, m |-> EmptyMap]
    ELSE LET last == inputs[Len(inputs)] IN
         IF last.kind = "map" /\ last.plain THEN [ok |-> TRUE, m |-> last.m]
         ELSE [ok |-> FALSE, m |-> EmptyMap]

\* parseMakeValueLookup(fastBag, fallback)(name)
parseMakeValueLookup(inputs, name) ==
    LET fastBag == parseFastBag(inputs) IN
    IF fastBag.ok /\ name \in DOMAIN fastBag.m THEN Hit(fastBag.m[name])
    ELSE lookup(inputs, name)

\* parseMakeRowsLookup(fastBag, fallback)(name)
parseMakeRowsLookup(inputs, name) ==
    LET fastBag == parseFastBag(inputs) IN
    IF fastBag.ok /\ name \in DOMAIN fastBag.m /\ rowsFromSliceValue(fastBag.m[name]).ok
    THEN rowsFromSliceValue(fastBag.m[name])
    ELSE rowsLookup(inputs, name)

(***************************************************************************)
(* Configuration (sqlr.go).                                                *)
(***************************************************************************)
\* defaultConfig(dialect, cfg): zero MaxParams takes the dialect's default,
\* MaxNameLen <= 0 becomes 64
defaultConfig(d, c) ==
    [MaxParams |-> IF c.MaxParams = 0
                   THEN CASE d = "SQLServer" -> 2100
                          [] d = "SQLite" -> 999
                          [] OTHER -> 65535
                   ELSE c.MaxParams,
     MaxNameLen |-> IF c.MaxNameLen <= 0 THEN 64 ELSE c.MaxNameLen]

(***************************************************************************)
(* Errors.                                                                 *)
(***************************************************************************)
NoErr == [kind |-> "nil"]
ErrParamMissing(name) == [kind |-> "ErrParamMissing", name |-> name]
ErrSliceEmpty(name) == [kind |-> "ErrSliceEmpty", name |-> name]
ErrRowsEmpty(name) == [kind |-> "ErrRowsEmpty", name |-> name]
ErrRowsMalformed(name) == [kind |-> "ErrRowsMalformed", name |-> name]
ErrParamNameTooLong(name) == [kind |-> "ErrParamNameTooLong", name |-> name]
ErrTooManyParams(req, lim) == [kind |-> "ErrTooManyParams", requested |-> req, limit |-> lim]
ErrColumnNotFound(col, name, r) ==
    [kind |-> "ErrColumnNotFound", col |-> col, name |-> name, record |-> r]
\* ErrFieldAmbiguous of a :name (record = -1) or of a column of row r
ErrFieldAmbiguous(col, name, r) ==
    [kind |-> "ErrFieldAmbiguous", col |-> col, name |-> name, record |-> r]

\* a bug: the comparison is >= and a render that reaches the limit fails
ensureAdd_AtLimit(cur, add, cfg) ==
    IF cfg.MaxParams > 0 /\ cur + add >= cfg.MaxParams
    THEN ErrTooManyParams(cur + add, cfg.MaxParams)
    ELSE NoErr
\* ensureAdd(cur, add): the error of adding `add` placeholders to `cur`
ensureAdd(cur, add, cfg) ==
    IF cfg.MaxParams > 0 /\ cur + add > cfg.MaxParams
    THEN ErrTooManyParams(cur + add, cfg.MaxParams)
    ELSE NoErr

(***************************************************************************)
(* parse(dialect, q, inputs, config): one render.                          *)
(***************************************************************************)
VARIABLES
    q, dialect, inputs, config,   \* the arguments of parse
    pc,        \* "scan": the for loop; "slice" / "rows": inside an expansion;
               \* "done": returned; "panic": the goroutine panicked
    i, state, dqTag, n, buf, args,   \* the locals of parse
    blk,       \* the expansion in progress
    ret,       \* what parse returned: text, args (argsNil: a nil slice), err
    emitted,   \* history: the ordinal and buffer offset of every token written
    lookups,   \* history: every call of lookup / rowsLookup
    renders, prevRet,  \* renders of this statement so far, the previous result
    bInputs, bag, bErr,    \* the Builder's fields inputs, bag and err
    supplied,  \* history: the Bind calls so far and what each name was last bound to
    call, result   \* a direct call of a resolver function and what it returned

\* scanning a cursor into a destination (ScanOneContext, ScanAllContext)
VARIABLES
    cursor,    \* the *sql.Rows: columns, rows, position, opened, closed
    dest,      \* the destination: its type and its value
    scanSt,    \* the scanState: targets, sinks, holders
    heap,      \* the objects allocated so far
    mpc,       \* position of the scanning goroutine
    mret       \* the error the scan returned

\* builders handed out by one SQLR (SQLR.Write, the Builder methods, the pool)
VARIABLES
    objs,      \* the Builder objects allocated so far
    pool,      \* the objects in the sync.Pool
    hnd,       \* the handles SQLR.Write returned, with what their owners wrote
    gr,        \* the goroutines: position and locals
    lastOp,      \* history: the operation that returned last
    policy     \* the callers: which goroutines, and whether they keep handles

\* a generational cache (fieldCache, planCache)
VARIABLES
    curr,      \* the current generation: key -> value
    prev,      \* the previous generation: key -> value
    mu,        \* the sync.RWMutex: the readers and the writer
    cg,        \* the goroutines calling get and put
    age        \* history: the insertions of other keys since the watched key's own

\* concurrent scans with one cached plan (getScanPlan, newState)
VARIABLES
    sc,        \* the scanning goroutines: position, plan, scanState, destination
    mem        \* the plan cache, the scanPlan objects and the scanState objects

parseArgs == <<q, dialect, inputs, config>>
parseLocals == <<pc, i, state, dqTag, n, buf, args, blk>>
parseHist == <<ret, emitted, lookups, renders, prevRet>>
builder == <<bInputs, bag, bErr, supplied>>
probe == <<call, result>>
parser == <<parseArgs, parseLocals, parseHist, builder, probe>>
mapper == <<cursor, dest, scanSt, heap, mpc, mret>>
handles == <<objs, pool, hnd, gr, lastOp, policy>>
caches == <<curr, prev, mu, cg, age>>
plans == <<sc, mem>>
others == <<mapper, handles, caches, plans>>
notMapper == <<parser, handles, caches, plans>>
notHandles == <<parser, mapper, caches, plans>>
notCache == <<parser, mapper, handles, plans>>
notPlans == <<parser, mapper, handles, caches>>
vars == <<parser, others>>

NoRet == [text |-> <<>>, args |-> <<>>, argsNil |-> TRUE, err |-> NoErr]
NoBlk == [form |-> "none"]

\* the fresh locals of a call of parse
Enter ==
    /\ pc = "scan" /\ i = 0 /\ state = "sText" /\ dqTag = <<>> /\ n = 0
    /\ buf = <<>> /\ args = <<>> /\ blk = NoBlk
    /\ emitted = <<>> /\ lookups = <<>>

\* a bug: the in-progress buffer and arguments are returned with the error
Fail_KeepsOutput(e) ==
    /\ pc' = "done"
    /\ ret' = [text |-> buf, args |-> args, argsNil |-> FALSE, err |-> e]
\* return "", nil, err
Fail(e) ==
    /\ pc' = "done"
    /\ ret' = [text |-> <<>>, args |-> <<>>, argsNil |-> TRUE, err |-> e]

\* a bug: '#' opens a line comment in every dialect
parseTryEnterSpecial_Ungated(s, at, d) ==
    LET c == At(s, at)
        two(x, y) == c = x /\ at + 1 < Len(s) /\ At(s, at + 1) = y
        tag == readDollarTag(s, at)
        Enter1(st, w) == [ok |-> TRUE, state |-> st, i |-> at + Len(w), tag |-> <<>>, w |-> w]
    IN  IF two("-", "-") THEN Enter1("sLC", <<"-", "-">>)
        ELSE IF c = "#" THEN Enter1("sLC", <<"#">>)
        ELSE IF two("/", "*") THEN Enter1("sBC", <<"/", "*">>)
        ELSE IF c = "'" THEN Enter1("sSQ", <<c>>)
        ELSE IF c = "\"" THEN Enter1("sDQ", <<c>>)
        ELSE IF c = Backtick /\ d \in {"MySQL", "SQLite"} THEN Enter1("sBT", <<c>>)
        ELSE IF c = "[" /\ d = "SQLServer" THEN Enter1("sBR", <<c>>)
        ELSE IF c = "$" /\ tag.ok
             THEN [ok |-> TRUE, state |-> "sDQD", i |-> at + Len(tag.tag),
                   tag |-> tag.tag, w |-> tag.tag]
        ELSE [ok |-> FALSE, state |-> "sText", i |-> at, tag |-> <<>>, w |-> <<>>]

\* the opener, if any, that parse recognises at q[i] in text state
\* (parseTryEnterSpecial; the if-chain at the top of case sText)
parseTryEnterSpecial(s, at, d) ==
    LET c == At(s, at)
        two(x, y) == c = x /\ at + 1 < Len(s) /\ At(s, at + 1) = y
        tag == readDollarTag(s, at)
        Enter1(st, w) == [ok |-> TRUE, state |-> st, i |-> at + Len(w), tag |-> <<>>, w |-> w]
    IN  IF two("-", "-") THEN Enter1("sLC", <<"-", "-">>)
        ELSE IF c = "#" /\ d = "MySQL" THEN Enter1("sLC", <<"#">>)
        ELSE IF two("/", "*") THEN Enter1("sBC", <<"/", "*">>)
        ELSE IF c = "'" THEN Enter1("sSQ", <<c>>)
        ELSE IF c = "\"" THEN Enter1("sDQ", <<c>>)
        ELSE IF c = Backtick /\ d \in {"MySQL", "SQLite"} THEN Enter1("sBT", <<c>>)
        ELSE IF c = "[" /\ d = "SQLServer" THEN Enter1("sBR", <<c>>)
        ELSE IF c = "$" /\ tag.ok
             THEN [ok |-> TRUE, state |-> "sDQD", i |-> at + Len(tag.tag),
                   tag |-> tag.tag, w |-> tag.tag]
        ELSE [ok |-> FALSE, state |-> "sText", i |-> at, tag |-> <<>>, w |-> <<>>]

\* a bug: the colon before is not looked at
parseIsParamStart_NoLookBehind(s, at) ==
    /\ At(s, at) = ":"
    /\ at + 1 < Len(s)
    /\ At(s, at + 1) # ":"

\* q[i] starts a :name placeholder (not a :: cast)
parseIsParamStart(s, at) ==
    /\ At(s, at) = ":"
    /\ at + 1 < Len(s)
    /\ At(s, at + 1) # ":"
    /\ ~(at > 0 /\ At(s, at - 1) = ":")

\* a placeholder is read at q[i]: parseIsParamStart and an identifier follows
IsPlaceholderAt(s, at) == parseIsParamStart(s, at) /\ isAlphaUnderscore(At(s, at + 1))

Scanning == pc = "scan" /\ i < Len(q)

\* a bug: the counter skips an ordinal
NextOrdinal_Skips(cur) == cur + 2
\* n++
NextOrdinal(cur) == cur + 1

\* a bug: an integer value is written into the text instead of its token
Emit_Interpolates(pre, v) ==
    /\ n' = n + 1
    /\ buf' = buf \o pre \o (IF v.kind = "int" THEN AppendInt(v.ival)
                             ELSE writePlaceholder(dialect, n + 1))
    /\ args' = Append(args, v)
    /\ emitted' = Append(emitted, [ord |-> n + 1, pos |-> Len(buf) + Len(pre)])

\* a bug: the argument is put in front of the list
Emit_ArgsPrepended(pre, v) ==
    /\ n' = n + 1
    /\ buf' = buf \o pre \o writePlaceholder(dialect, n + 1)
    /\ args' = <<v>> \o args
    /\ emitted' = Append(emitted, [ord |-> n + 1, pos |-> Len(buf) + Len(pre)])

\* n++; writePlaceholder(&buf, dialect, n); args = append(args, v)
\* after `pre` has been written to the buffer
Emit(pre, v) ==
    /\ n' = NextOrdinal(n)
    /\ buf' = buf \o pre \o writePlaceholder(dialect, NextOrdinal(n))
    /\ args' = Append(args, v)
    /\ emitted' = Append(emitted, [ord |-> NextOrdinal(n), pos |-> Len(buf) + Len(pre)])

EnterSpecial ==
    /\ Scanning /\ state = "sText"
    /\ LET sp == parseTryEnterSpecial(q, i, dialect) IN
       /\ sp.ok
       /\ state' = sp.state /\ i' = sp.i /\ dqTag' = sp.tag
       /\ buf' = buf \o sp.w
    /\ UNCHANGED <<others, builder, probe, parseArgs, pc, n, args, blk, parseHist>>

\* a bug: an ordinary byte is skipped
PlainByte_Skips ==
    /\ Scanning /\ state = "sText"
    /\ ~parseTryEnterSpecial(q, i, dialect).ok
    /\ ~IsPlaceholderAt(q, i)
    /\ buf' = buf /\ i' = i + 1
    /\ UNCHANGED <<others, builder, probe, parseArgs, pc, state, dqTag, n, args, blk, parseHist>>

PlainByte ==
    /\ Scanning /\ state = "sText"
    /\ ~parseTryEnterSpecial(q, i, dialect).ok
    /\ ~IsPlaceholderAt(q, i)
    /\ buf' = Append(buf, At(q, i)) /\ i' = i + 1
    /\ UNCHANGED <<others, builder, probe, parseArgs, pc, state, dqTag, n, args, blk, parseHist>>

\* a bug: the driver.Valuer check is missing, a Valuer slice expands
parseEmitValue_NoValuer(v) ==
    IF v.kind = "scalar" THEN [how |-> "one", arg |-> v.inner]
    ELSE IF IsBytes(v) THEN [how |-> "one", arg |-> v]
    ELSE IF v.kind = "slice" /\ v.elem = "uint8"
         THEN [how |-> "one", arg |-> SliceOf("uint8", v.elems)]
    ELSE IF v.kind \in {"slice", "array"} /\ v.elem # "uint8"
         THEN [how |-> "many", arg |-> v]
    ELSE [how |-> "one", arg |-> v]

\* what the value v of :name binds as: "one" placeholder with argument arg,
\* or an expansion of the elements ("many")
parseEmitValue(v) ==
    IF v.kind = "scalar" THEN [how |-> "one", arg |-> v.inner]
    ELSE IF IsValuer(v) THEN [how |-> "one", arg |-> v]
    ELSE IF IsBytes(v) THEN [how |-> "one", arg |-> v]
    ELSE IF v.kind = "slice" /\ v.elem = "uint8"
         THEN [how |-> "one", arg |-> SliceOf("uint8", v.elems)]
    ELSE IF v.kind \in {"slice", "array"} /\ v.elem # "uint8"
         THEN [how |-> "many", arg |-> v]
    ELSE [how |-> "one", arg |-> v]

\* the first requested column the field map m lacks or maps ambiguously
\* (0 when every column resolves)
RECURSIVE FirstBadCol(_, _, _)
FirstBadCol(m, cols, c) ==
    IF c > Len(cols) THEN 0
    ELSE IF cols[c] \notin DOMAIN m \/ m[cols[c]].ambiguous THEN c
    ELSE FirstBadCol(m, cols, c + 1)
\* a bug: the error always names record 0
ColError_Record0(m, cols, name, r) ==
    LET c == FirstBadCol(m, cols, 1) IN
    IF c = 0 THEN NoErr
    ELSE IF cols[c] \notin DOMAIN m THEN ErrColumnNotFound(cols[c], name, 0)
    ELSE ErrFieldAmbiguous(cols[c], name, 0)
ColError(m, cols, name, r) ==
    LET c == FirstBadCol(m, cols, 1) IN
    IF c = 0 THEN NoErr
    ELSE IF cols[c] \notin DOMAIN m THEN ErrColumnNotFound(cols[c], name, r)
    ELSE ErrFieldAmbiguous(cols[c], name, r)
\* a bug: the paths are stored in reverse column order
ColPaths_Reversed(m, cols) == [c \in 1..Len(cols) |-> m[cols[Len(cols) + 1 - c]].index]
ColPaths(m, cols) == [c \in 1..Len(cols) |-> m[cols[c]].index]

\* :name -- lookup, classification, a single placeholder or the start of
\* a slice expansion
ScalarPlaceholder(name, k) ==
    LET r == lookup(inputs, name) IN
    /\ lookups' = Append(lookups, [form |-> "value", name |-> name, at |-> i])
    /\ IF ~r.ok THEN
           /\ Fail(ErrParamMissing(name))
           /\ UNCHANGED <<i, n, buf, args, blk, emitted>>
       ELSE IF r.v.kind = "ambiguous" THEN
           /\ Fail(ErrFieldAmbiguous(r.v.name, r.v.name, -1))
           /\ UNCHANGED <<i, n, buf, args, blk, emitted>>
       ELSE LET e == parseEmitValue(r.v) IN
           IF e.how = "one" THEN
               IF ensureAdd(n, 1, config) # NoErr THEN
                   /\ Fail(ensureAdd(n, 1, config))
                   /\ UNCHANGED <<i, n, buf, args, blk, emitted>>
               ELSE
                   /\ Emit(<<>>, e.arg)
                   /\ i' = k
                   /\ UNCHANGED <<pc, blk, ret>>
           ELSE IF Len(e.arg.elems) = 0 THEN
               /\ Fail(ErrSliceEmpty(name))
               /\ UNCHANGED <<i, n, buf, args, blk, emitted>>
           ELSE IF ensureAdd(n, Len(e.arg.elems), config) # NoErr THEN
               /\ Fail(ensureAdd(n, Len(e.arg.elems), config))
               /\ UNCHANGED <<i, n, buf, args, blk, emitted>>
           ELSE
               /\ pc' = "slice"
               /\ blk' = [form |-> "slice", name |-> name, k |-> k,
                          vals |-> e.arg.elems, t |-> 0]
               /\ UNCHANGED <<i, n, buf, args, ret, emitted>>

\* a bug: the columns of the first record are not resolved before the block
\* is written
RowsPlaceholder_Lazy(name, k) ==
    LET rc == readCols(q, k)
        rl == rowsLookup(inputs, name)
        rv0 == deIndirect(rl.rows[1])
        m0 == FieldMapOf(rv0)
    IN
    IF ~rc.ok \/ Len(rc.cols) = 0 THEN
        /\ Fail(ErrRowsMalformed(name))
        /\ UNCHANGED <<i, n, buf, args, blk, emitted, lookups>>
    ELSE
        /\ lookups' = Append(lookups, [form |-> "rows", name |-> name, at |-> i])
        /\ IF rl.panic THEN
               /\ pc' = "panic"
               /\ UNCHANGED <<i, n, buf, args, blk, emitted, ret>>
           ELSE IF ~rl.ok THEN
               /\ Fail(ErrParamMissing(name))
               /\ UNCHANGED <<i, n, buf, args, blk, emitted>>
           ELSE IF Len(rl.rows) = 0 THEN
               /\ Fail(ErrRowsEmpty(name))
               /\ UNCHANGED <<i, n, buf, args, blk, emitted>>
           ELSE IF ensureAdd(n, Len(rl.rows) * Len(rc.cols), config) # NoErr THEN
               /\ Fail(ensureAdd(n, Len(rl.rows) * Len(rc.cols), config))
               /\ UNCHANGED <<i, n, buf, args, blk, emitted>>
           ELSE
               /\ pc' = "rows"
               /\ blk' = [form |-> "rows", name |-> name, k |-> rc.k2,
                          cols |-> rc.cols, rows |-> rl.rows, r |-> 0, c |-> 0,
                          colKeys |-> rv0.kind = "map" /\ KeyConvertible(rv0),
                          mapKeyT |-> IF rv0.kind = "map" THEN rv0.keyk ELSE "",
                          colPathByType |-> EmptyMap]
               /\ UNCHANGED <<i, n, buf, args, emitted, ret>>

\* :name{cols} -- column list, rows lookup, limit, precompute for row 0
RowsPlaceholder(name, k) ==
    LET rc == readCols(q, k)
        rl == rowsLookup(inputs, name)
        rv0 == deIndirect(rl.rows[1])
        m0 == FieldMapOf(rv0)
    IN
    IF ~rc.ok \/ Len(rc.cols) = 0 THEN
        /\ Fail(ErrRowsMalformed(name))
        /\ UNCHANGED <<i, n, buf, args, blk, emitted, lookups>>
    ELSE
        /\ lookups' = Append(lookups, [form |-> "rows", name |-> name, at |-> i])
        /\ IF rl.panic THEN
               /\ pc' = "panic"
               /\ UNCHANGED <<i, n, buf, args, blk, emitted, ret>>
           ELSE IF ~rl.ok THEN
               /\ Fail(ErrParamMissing(name))
               /\ UNCHANGED <<i, n, buf, args, blk, emitted>>
           ELSE IF Len(rl.rows) = 0 THEN
               /\ Fail(ErrRowsEmpty(name))
               /\ UNCHANGED <<i, n, buf, args, blk, emitted>>
           ELSE IF ensureAdd(n, Len(rl.rows) * Len(rc.cols), config) # NoErr THEN
               /\ Fail(ensureAdd(n, Len(rl.rows) * Len(rc.cols), config))
               /\ UNCHANGED <<i, n, buf, args, blk, emitted>>
           ELSE IF Kind(rv0) = "struct" /\ ColError(m0, rc.cols, name, 0) # NoErr THEN
               /\ Fail(ColError(m0, rc.cols, name, 0))
               /\ UNCHANGED <<i, n, buf, args, blk, emitted>>
           ELSE
               /\ pc' = "rows"
               /\ blk' = [form |-> "rows", name |-> name, k |-> rc.k2,
                          cols |-> rc.cols, rows |-> rl.rows, r |-> 0, c |-> 0,
                          colKeys |-> rv0.kind = "map" /\ KeyConvertible(rv0),
                          mapKeyT |-> IF rv0.kind = "map" THEN rv0.keyk ELSE "",
                          colPathByType |->
                              IF Kind(rv0) = "struct"
                              THEN (TypeName(rv0) :> ColPaths(m0, rc.cols))
                              ELSE EmptyMap]
               /\ UNCHANGED <<i, n, buf, args, emitted, ret>>

\* a bug: the length of the name is checked for :name only, after the
\* :name{...} form is handled
Placeholder_BlockFirst ==
    /\ Scanning /\ state = "sText"
    /\ ~parseTryEnterSpecial(q, i, dialect).ok
    /\ IsPlaceholderAt(q, i)
    /\ LET k == NameEnd(q, i + 2)
           name == Sub(q, i + 1, k)
       IN IF k < Len(q) /\ At(q, k) = "{" THEN RowsPlaceholder(name, k)
          ELSE IF config.MaxNameLen > 0 /\ Len(name) > config.MaxNameLen THEN
              /\ Fail(ErrParamNameTooLong(name))
              /\ UNCHANGED <<i, n, buf, args, blk, emitted, lookups>>
          ELSE ScalarPlaceholder(name, k)
    /\ UNCHANGED <<others, builder, probe, parseArgs, state, dqTag, renders, prevRet>>

\* a :name or :name{...} in text state
Placeholder ==
    /\ Scanning /\ state = "sText"
    /\ ~parseTryEnterSpecial(q, i, dialect).ok
    /\ IsPlaceholderAt(q, i)
    /\ LET k == NameEnd(q, i + 2)
           name == Sub(q, i + 1, k)
       IN IF config.MaxNameLen > 0 /\ Len(name) > config.MaxNameLen THEN
              /\ Fail(ErrParamNameTooLong(name))
              /\ UNCHANGED <<i, n, buf, args, blk, emitted, lookups>>
          ELSE IF k < Len(q) /\ At(q, k) = "{" THEN RowsPlaceholder(name, k)
          ELSE ScalarPlaceholder(name, k)
    /\ UNCHANGED <<others, builder, probe, parseArgs, state, dqTag, renders, prevRet>>

\* a bug: the elements are separated by a comma without the space
EmitSliceElem_NoSpace ==
    /\ pc = "slice"
    /\ Emit(IF blk.t > 0 THEN <<",">> ELSE <<>>, blk.vals[blk.t + 1])
    /\ IF blk.t + 1 = Len(blk.vals)
       THEN pc' = "scan" /\ i' = blk.k /\ blk' = NoBlk
       ELSE pc' = pc /\ i' = i /\ blk' = [blk EXCEPT !.t = @ + 1]
    /\ UNCHANGED <<others, builder, probe, parseArgs, state, dqTag, ret, lookups, renders, prevRet>>

\* one element of a slice expansion
EmitSliceElem ==
    /\ pc = "slice"
    /\ Emit(IF blk.t > 0 THEN <<",", " ">> ELSE <<>>, blk.vals[blk.t + 1])
    /\ IF blk.t + 1 = Len(blk.vals)
       THEN pc' = "scan" /\ i' = blk.k /\ blk' = NoBlk
       ELSE pc' = pc /\ i' = i /\ blk' = [blk EXCEPT !.t = @ + 1]
    /\ UNCHANGED <<others, builder, probe, parseArgs, state, dqTag, ret, lookups, renders, prevRet>>

\* one cell (row r, column c) of a row-block
EmitRowCell ==
    /\ pc = "rows"
    /\ LET r == blk.r
           c == blk.c
           row == blk.rows[r + 1]
           col == blk.cols[c + 1]
           rv == deIndirect(row)
           pre == IF c > 0 THEN <<",", " ">>
                  ELSE (IF r > 0 THEN <<",", " ">> ELSE <<>>) \o <<"(">>
           useMapFast == blk.colKeys /\ rv.kind = "map" /\ rv.keyk = blk.mapKeyT
           isStruct == Kind(rv) = "struct"
           has == isStruct /\ TypeName(rv) \in DOMAIN blk.colPathByType
           fm == FieldMapOf(rv)
           resolveErr == IF isStruct /\ ~has
                         THEN ColError(fm, blk.cols, blk.name, r) ELSE NoErr
           cache == IF isStruct /\ ~has /\ resolveErr = NoErr
                    THEN blk.colPathByType @@ (TypeName(rv) :> ColPaths(fm, blk.cols))
                    ELSE blk.colPathByType
           got == IF isStruct THEN getValueByPathAny(rv, cache[TypeName(rv)][c + 1])
                  ELSE IF useMapFast
                       THEN (IF col \in DOMAIN rv.m THEN Hit(rv.m[col]) ELSE Miss)
                  ELSE getColValue(row, col)
           last == c + 1 = Len(blk.cols)
           post == IF last THEN <<")">> ELSE <<>>
       IN IF resolveErr # NoErr THEN
              /\ Fail(resolveErr)
              /\ buf' = buf \o pre
              /\ UNCHANGED <<i, n, args, blk, emitted>>
          ELSE IF ~got.ok THEN
              /\ Fail(ErrColumnNotFound(col, blk.name, r))
              /\ buf' = buf \o pre
              /\ UNCHANGED <<i, n, args, blk, emitted>>
          ELSE
              /\ n' = NextOrdinal(n)
              /\ buf' = buf \o pre \o writePlaceholder(dialect, NextOrdinal(n)) \o post
              /\ args' = Append(args, got.v)
              /\ emitted' = Append(emitted,
                                   [ord |-> NextOrdinal(n), pos |-> Len(buf) + Len(pre)])
              /\ IF last /\ r + 1 = Len(blk.rows)
                 THEN pc' = "scan" /\ i' = blk.k /\ blk' = NoBlk
                 ELSE /\ pc' = pc /\ i' = i
                      /\ blk' = [blk EXCEPT !.r = IF last THEN r + 1 ELSE r,
                                            !.c = IF last THEN 0 ELSE c + 1,
                                            !.colPathByType = cache]
              /\ ret' = ret
    /\ UNCHANGED <<others, builder, probe, parseArgs, state, dqTag, lookups, renders, prevRet>>

\* a bug: the backslash is an ordinary byte of the literal
QuotedStep_NoEscape(st, quote) ==
    /\ Scanning /\ state = st
    /\ LET c == At(q, i) IN
       IF c = quote /\ i + 1 < Len(q) /\ At(q, i + 1) = quote THEN
           /\ buf' = buf \o <<c, quote>> /\ i' = i + 2 /\ state' = state
       ELSE
           /\ buf' = Append(buf, c) /\ i' = i + 1
           /\ state' = IF c = quote THEN "sText" ELSE state
    /\ UNCHANGED <<others, builder, probe, parseArgs, pc, dqTag, n, args, blk, parseHist>>

\* case sSQ / sDQ: a quoted literal; a backslash escapes the next byte and a
\* doubled quote stays inside
QuotedStep(st, quote) ==
    /\ Scanning /\ state = st
    /\ LET c == At(q, i) IN
       IF c = "\\" THEN
           /\ buf' = buf \o Sub(q, i, IF i + 1 < Len(q) THEN i + 2 ELSE i + 1)
           /\ i' = IF i + 1 < Len(q) THEN i + 2 ELSE i + 1
           /\ state' = state
       ELSE IF c = quote /\ i + 1 < Len(q) /\ At(q, i + 1) = quote THEN
           /\ buf' = buf \o <<c, quote>> /\ i' = i + 2 /\ state' = state
       ELSE
           /\ buf' = Append(buf, c) /\ i' = i + 1
           /\ state' = IF c = quote THEN "sText" ELSE state
    /\ UNCHANGED <<others, builder, probe, parseArgs, pc, dqTag, n, args, blk, parseHist>>

StepSQ == QuotedStep("sSQ", "'")
StepDQ == QuotedStep("sDQ", "\"")

\* case sBT / sBR: a quoted identifier; only the doubled closer stays inside
IdentStep(st, closer) ==
    /\ Scanning /\ state = st
    /\ LET c == At(q, i) IN
       IF c = closer /\ i + 1 < Len(q) /\ At(q, i + 1) = closer THEN
           /\ buf' = buf \o <<c, closer>> /\ i' = i + 2 /\ state' = state
       ELSE
           /\ buf' = Append(buf, c) /\ i' = i + 1
           /\ state' = IF c = closer THEN "sText" ELSE state
    /\ UNCHANGED <<others, builder, probe, parseArgs, pc, dqTag, n, args, blk, parseHist>>

StepBT == IdentStep("sBT", Backtick)
StepBR == IdentStep("sBR", "]")

\* case sLC: a line comment ends at \n or \r
StepLC ==
    /\ Scanning /\ state = "sLC"
    /\ buf' = Append(buf, At(q, i)) /\ i' = i + 1
    /\ state' = IF At(q, i) \in {"\n", "\r"} THEN "sText" ELSE state
    /\ UNCHANGED <<others, builder, probe, parseArgs, pc, dqTag, n, args, blk, parseHist>>

\* a bug: the cursor stays on a colon inside the comment
StepBC_Stuck ==
    /\ Scanning /\ state = "sBC"
    /\ IF At(q, i) = "*" /\ i + 1 < Len(q) /\ At(q, i + 1) = "/"
       THEN buf' = buf \o <<"*", "/">> /\ i' = i + 2 /\ state' = "sText"
       ELSE IF At(q, i) = ":"
       THEN buf' = Append(buf, At(q, i)) /\ i' = i /\ state' = state
       ELSE buf' = Append(buf, At(q, i)) /\ i' = i + 1 /\ state' = state
    /\ UNCHANGED <<others, builder, probe, parseArgs, pc, dqTag, n, args, blk, parseHist>>

\* case sBC: a block comment ends at */
StepBC ==
    /\ Scanning /\ state = "sBC"
    /\ IF At(q, i) = "*" /\ i + 1 < Len(q) /\ At(q, i + 1) = "/"
       THEN buf' = buf \o <<"*", "/">> /\ i' = i + 2 /\ state' = "sText"
       ELSE buf' = Append(buf, At(q, i)) /\ i' = i + 1 /\ state' = state
    /\ UNCHANGED <<others, builder, probe, parseArgs, pc, dqTag, n, args, blk, parseHist>>

\* case sDQD: a dollar-quoted region runs to the next occurrence of its tag
\* a bug: the region ends at the next '$', whatever the tag
StepDQD_AnyDollar ==
    /\ Scanning /\ state = "sDQD"
    /\ LET p == IndexFrom(q, i, <<"$">>, 0) IN
       IF p < 0 THEN
           /\ buf' = buf \o Sub(q, i, Len(q)) /\ i' = Len(q)
           /\ UNCHANGED <<state, dqTag>>
       ELSE
           /\ buf' = buf \o Sub(q, i, i + p + 1)
           /\ i' = i + p + 1
           /\ dqTag' = <<>> /\ state' = "sText"
    /\ UNCHANGED <<others, builder, probe, parseArgs, pc, n, args, blk, parseHist>>

StepDQD ==
    /\ Scanning /\ state = "sDQD"
    /\ LET p == IF dqTag = <<>> THEN -1 ELSE IndexFrom(q, i, dqTag, 0) IN
       IF p < 0 THEN
           /\ buf' = buf \o Sub(q, i, Len(q)) /\ i' = Len(q)
           /\ UNCHANGED <<state, dqTag>>
       ELSE
           /\ buf' = buf \o Sub(q, i, i + p) \o dqTag
           /\ i' = i + p + Len(dqTag)
           /\ dqTag' = <<>> /\ state' = "sText"
    /\ UNCHANGED <<others, builder, probe, parseArgs, pc, n, args, blk, parseHist>>

\* return buf.String(), args, nil
Finish ==
    /\ pc = "scan" /\ i >= Len(q)
    /\ pc' = "done"
    /\ ret' = [text |-> buf, args |-> args, argsNil |-> FALSE, err |-> NoErr]
    /\ UNCHANGED <<others, builder, probe, parseArgs, i, state, dqTag, n, buf, args, blk,
                   emitted, lookups, renders, prevRet>>

\* parse is called again with the same arguments (Preview, then Build)
Again ==
    /\ pc = "done" /\ renders < MaxRenders
    /\ renders' = renders + 1 /\ prevRet' = ret /\ ret' = NoRet
    /\ pc' = "scan" /\ i' = 0 /\ state' = "sText" /\ dqTag' = <<>> /\ n' = 0
    /\ buf' = <<>> /\ args' = <<>> /\ blk' = NoBlk
    /\ emitted' = <<>> /\ lookups' = <<>>
    /\ UNCHANGED <<others, builder, probe, parseArgs>>

(***************************************************************************)
(* The statements the model renders.                                       *)
(***************************************************************************)
RECURSIVE Flatten(_)
Flatten(ss) == IF ss = <<>> THEN <<>> ELSE Head(ss) \o Flatten(Tail(ss))

\* every concatenation of at most max segments
Templates(segs, max) ==
    UNION { { Flatten(t) : t \in [1..k -> segs] } : k \in 0..max }

PhA == <<":", "a">>
nAB == <<"a", "b">>
PhZ == <<":">> \o nZ

\* complete quoted literals, quoted identifiers, comments and dollar-quoted
\* regions around the placeholder-shaped token :z
SQLit == <<"'">> \o PhZ \o <<"'">>
SQEscLit == <<"'", "\\", "'">> \o PhZ \o <<"'">>
SQDblLit == <<"'", "'", "'">> \o PhZ \o <<"'">>
DQLit == <<"\"">> \o PhZ \o <<"\"">>
DQEscLit == <<"\"", "\\", "\"">> \o PhZ \o <<"\"">>
DQDblLit == <<"\"", "\"", "\"">> \o PhZ \o <<"\"">>
BTLit == <<Backtick>> \o PhZ \o <<Backtick>>
BTEscLit == <<Backtick, "\\", Backtick>> \o PhZ \o <<Backtick>>
BTDblLit == <<Backtick, Backtick, Backtick>> \o PhZ \o <<Backtick>>
BRLit == <<"[">> \o PhZ \o <<"]">>
BREscLit == <<"[", "\\", "]">> \o PhZ \o <<"]">>
BRDblLit == <<"[", "]", "]">> \o PhZ \o <<"]">>
DashComment == <<"-", "-">> \o PhZ \o <<"\n">>
HashComment == <<"#">> \o PhZ \o <<"\r">>
BlockComment == <<"/", "*">> \o PhZ \o <<"*", "/">>
DollarLit == <<"$", "$">> \o PhZ \o <<"$", "$">>
TagLit == <<"$", "t", "$", "$", "$">> \o PhZ \o <<"$", "t", "$">>

\* regions that never end
UntermBC == <<"/", "*">>
UntermDQD == <<"$", "t", "$">>
UntermDQ == <<"\"", "x", "\\">>

LexSegs ==
    { PhA, <<"'">>, UntermBC, UntermDQD, UntermDQ,
      SQLit, SQEscLit, SQDblLit, DQLit, DQEscLit,
      BTLit, BTEscLit, BTDblLit, BRLit, BREscLit, BRDblLit,
      DashComment, HashComment, BlockComment, DollarLit, TagLit }

PhB == <<" ", ":", "b">>
PhRowsAB == <<" ", ":">> \o nRows \o <<"{", "a", ",", " ", "b", "}">>
PhRowsB == <<" ", ":">> \o nRows \o <<"{", "b", "}">>
ValueSegs == { PhA, PhB }
RowsSegs == { PhA, PhRowsAB, PhRowsB }

\* templates of the name-length and column-list checks
LimitTemplates ==
    { <<":">> \o nAB,
      PhA \o <<" ", ":">> \o nAB,
      PhA \o PhB \o <<" ">> \o PhA \o PhB,
      <<":">> \o nAB \o <<"{", "a", "}">>,
      <<":">> \o nRows \o <<"{", "}">>,
      <<":">> \o nRows \o <<"{", "a", ",", "}">>,
      <<":">> \o nRows \o <<"{", "a">>,
      PhA \o <<"{">> }

IntSeq(k) == [j \in 1..k |-> IntV(10 + j)]
ByteSeq(k) == [j \in 1..k |-> IntV(j)]

\* values bound to :a
ValsA ==
    { IntV(1), Nil, NilPtr,
      Scalar(SliceOf("int", IntSeq(2))),
      ValuerOf(SliceOf("int", IntSeq(2))),
      ValuerSlice(IntSeq(2)),
      NamedSliceOf("uint8", ByteSeq(2)),
      Ptr(SliceOf("int", IntSeq(2))) }
    \cup { SliceOf("int", IntSeq(k)) : k \in 0..MaxElems }
    \cup { ArrayOf("int", IntSeq(k)) : k \in {0, MaxElems} }
    \cup { SliceOf("uint8", ByteSeq(k)) : k \in {0, MaxElems} }
    \cup { ArrayOf("uint8", ByteSeq(k)) : k \in {0, MaxElems} }

Bag(va, vb) == P((nA :> va) @@ (nB :> vb))

R1 == StructOf("R", <<IntV(1), IntV(2)>>)
R2 == StructOf("R", <<IntV(3), IntV(4)>>)
A5 == StructOf("A", <<IntV(5)>>)
B67 == StructOf("B", <<IntV(6), IntV(7)>>)
C1v == StructOf("C", <<A5, B67>>)
F1 == StructOf("F", <<IntV(0), SliceOf("int", IntSeq(2)), IntV(3), NilPtr>>)
F2 == StructOf("F", <<IntV(0), SliceOf("int", IntSeq(2)), IntV(3), Ptr(A5)>>)
M12 == Bag(IntV(21), IntV(22))
DefM == MapOf("defstring", FALSE, (nA :> IntV(31)) @@ (nB :> IntV(32)))
AnyM == MapOf("any", FALSE, (nA :> IntV(41)) @@ (nB :> IntV(42)))
IntM == MapOf("int", FALSE, (1 :> IntV(51)))
RowsBag(rs) == P((nRows :> SliceOf("any", rs)) @@ (nA :> IntV(1)))

\* input lists for the resolver cases of :a and :b
ValueInputs ==
    { <<>>,
      <<Bag(IntV(1), IntV(7)), P((nA :> IntV(2)))>>,
      <<P((nA :> IntV(2))), Bag(IntV(1), IntV(7))>>,
      <<C1v>>, <<C1v, P((nA :> IntV(1)))>>, <<Bag(IntV(1), IntV(7)), C1v>>,
      <<F1>>, <<Ptr(F2)>>, <<NilPtr, DefM>>, <<Ptr(AnyM)>>, <<IntM, B67>> }

\* input lists for the rows of :rows{...}
RowsInputs ==
    { <<RowsBag(<<R1, R2>>)>>,
      <<RowsBag(<<R1, M12, Ptr(R2)>>)>>,
      <<RowsBag(<<DefM, AnyM>>)>>,
      <<RowsBag(<<R1, A5>>)>>,
      <<RowsBag(<<R1, C1v>>)>>,
      <<RowsBag(<<C1v>>)>>,
      <<RowsBag(<<M12, IntM>>)>>,
      <<RowsBag(<<B67, NilPtr>>)>>,
      <<RowsBag(<<>>)>>,
      <<Bag(IntV(1), IntV(7))>>,
      <<P((nRows :> IntV(1)))>>,
      <<SliceOf("struct", <<R1>>), P((nA :> IntV(1)) @@ (nB :> IntV(2)))>>,
      <<RowsBag(<<R1>>), P((nRows :> Nil) @@ (nB :> IntV(2)))>>,
      <<RowsBag(<<R1>>), DefM>> }

(***************************************************************************)
(* Builder.Bind and Builder.Build (sqlr.go).                               *)
(***************************************************************************)
Str(s) == [kind |-> "string", s |-> s]
NoBag == [nil |-> TRUE, m |-> EmptyMap]
Unbound == [kind |-> "unbound"]
BindNames == {nA, nB}
NoSupplied == [calls |-> 0, by |-> [nm \in BindNames |-> Unbound]]
ErrBindOdd(k) == [kind |-> "ErrBindOdd", got |-> k]
ErrBindKey(pos) == [kind |-> "ErrBindKey", position |-> pos]

\* ensureBag: the bag, created when nil
ensureBag(b) == IF b.nil THEN [nil |-> FALSE, m |-> EmptyMap] ELSE b

\* bag[k] = v
BagPut(b, k, v) ==
    [nil |-> FALSE,
     m |-> [x \in DOMAIN b.m \cup {k} |-> IF x = k THEN v ELSE b.m[x]]]

\* the loop over the key/value pairs of Bind(k1, v1, k2, v2, ...): the bag and
\* the error after the pairs from position p on
RECURSIVE BindPairsFrom(_, _, _)
BindPairsFrom(b, kv, p) ==
    IF p >= Len(kv) THEN [bag |-> b, err |-> NoErr]
    ELSE LET k == kv[p + 1] IN
         IF k.kind # "string" \/ k.s = <<>> THEN [bag |-> b, err |-> ErrBindKey(p)]
         ELSE BindPairsFrom(BagPut(b, k.s, kv[p + 2]), kv, p + 2)

\* the arguments of the k-th Bind call, each with the names it supplies
OneArgs(k) ==
    { [args |-> <<Nil>>, gives |-> EmptyMap],
      [args |-> <<P((nA :> IntV(10 * k)))>>, gives |-> (nA :> IntV(10 * k))],
      [args |-> <<Bag(IntV(10 * k), IntV(10 * k + 1))>>,
       gives |-> (nA :> IntV(10 * k)) @@ (nB :> IntV(10 * k + 1))],
      [args |-> <<StructOf("A", <<IntV(10 * k)>>)>>, gives |-> (nA :> IntV(10 * k))],
      [args |-> <<Ptr(StructOf("B", <<IntV(10 * k), IntV(10 * k + 1)>>))>>,
       gives |-> (nA :> IntV(10 * k)) @@ (nB :> IntV(10 * k + 1))] }
PairArgs(k) ==
    { [args |-> <<Str(nA), IntV(10 * k)>>, gives |-> (nA :> IntV(10 * k))],
      [args |-> <<Str(nB), IntV(10 * k + 1)>>, gives |-> (nB :> IntV(10 * k + 1))],
      [args |-> <<Str(nA), IntV(10 * k), Str(nA), IntV(10 * k + 2)>>,
       gives |-> (nA :> IntV(10 * k + 2))],
      [args |-> <<Str(nA), IntV(10 * k), Str(nB), Nil>>,
       gives |-> (nA :> IntV(10 * k)) @@ (nB :> Nil)],
      [args |-> <<Str(nA), IntV(10 * k), Str(nB)>>, gives |-> EmptyMap],
      [args |-> <<Str(nA), IntV(10 * k), IntV(0), IntV(1)>>, gives |-> (nA :> IntV(10 * k))],
      [args |-> <<Str(<<>>), IntV(10 * k)>>, gives |-> EmptyMap] }

\* the history after a Bind call that supplies `gives`
Supply(gives) ==
    [calls |-> supplied.calls + 1,
     by |-> [nm \in BindNames |->
                IF nm \in DOMAIN gives THEN gives[nm] ELSE supplied.by[nm]]]

Binding == pc = "bind" /\ supplied.calls < MaxBinds

\* Bind(): case 0
BindNone ==
    /\ Binding
    /\ bag' = IF bErr # NoErr THEN bag ELSE ensureBag(bag)
    /\ supplied' = Supply(EmptyMap)
    /\ UNCHANGED <<bInputs, bErr, others, probe, parseArgs, parseLocals, parseHist>>

\* Bind(x): case 1
BindOne ==
    /\ Binding
    /\ \E a \in OneArgs(supplied.calls + 1) :
        /\ bInputs' = IF bErr # NoErr \/ a.args[1] = Nil THEN bInputs
                      ELSE Append(bInputs, a.args[1])
        /\ supplied' = Supply(IF bErr # NoErr THEN EmptyMap ELSE a.gives)
    /\ UNCHANGED <<bag, bErr, others, probe, parseArgs, parseLocals, parseHist>>

\* Bind(k1, v1, ...): default case
BindPairs ==
    /\ Binding
    /\ \E a \in PairArgs(supplied.calls + 1) :
        LET r == BindPairsFrom(ensureBag(bag), a.args, 0) IN
        /\ IF bErr # NoErr THEN UNCHANGED <<bag, bErr>>
           ELSE IF Len(a.args) % 2 # 0 THEN bErr' = ErrBindOdd(Len(a.args)) /\ bag' = bag
           ELSE bag' = r.bag /\ bErr' = r.err
        /\ supplied' = Supply(IF bErr # NoErr THEN EmptyMap ELSE a.gives)
    /\ UNCHANGED <<bInputs, others, probe, parseArgs, parseLocals, parseHist>>

\* Build(): in = inputs, plus the bag when it holds something; parse(d, q, in, cfg)
Build ==
    /\ pc = "bind"
    /\ inputs' = IF Cardinality(DOMAIN bag.m) > 0 THEN Append(bInputs, P(bag.m))
                 ELSE bInputs
    /\ IF bErr # NoErr
       THEN pc' = "done" /\ ret' = [text |-> <<>>, args |-> <<>>, argsNil |-> TRUE, err |-> bErr]
       ELSE pc' = "scan" /\ ret' = ret
    /\ UNCHANGED <<q, dialect, config, i, state, dqTag, n, buf, args, blk,
                   emitted, lookups, renders, prevRet, builder, probe, others>>

(***************************************************************************)
(* Direct calls of the resolver functions.                                 *)
(***************************************************************************)
NoCall == [fn |-> "none"]
ProbeNames == {nA, nB, nRows, nZ}

\* lookup(name) of makeMultiResolver(inputs)
CallLookup ==
    /\ pc = "probe"
    /\ \E name \in ProbeNames :
        /\ call' = [fn |-> "lookup", name |-> name]
        /\ result' = lookup(inputs, name)
    /\ UNCHANGED <<others, builder, parseArgs, parseLocals, parseHist>>

\* rowsLookup(name) of makeMultiResolver(inputs)
CallRowsLookup ==
    /\ pc = "probe"
    /\ \E name \in ProbeNames :
        /\ call' = [fn |-> "rowsLookup", name |-> name]
        /\ result' = rowsLookup(inputs, name)
    /\ UNCHANGED <<others, builder, parseArgs, parseLocals, parseHist>>

\* the lookup of the refactored parse: fast bag first, then the resolver
CallFastLookup ==
    /\ pc = "probe"
    /\ \E name \in ProbeNames :
        /\ call' = [fn |-> "fastLookup", name |-> name]
        /\ result' = parseMakeValueLookup(inputs, name)
    /\ UNCHANGED <<others, builder, parseArgs, parseLocals, parseHist>>

\* the rowsLookup of the refactored parse
CallFastRowsLookup ==
    /\ pc = "probe"
    /\ \E name \in ProbeNames :
        /\ call' = [fn |-> "fastRowsLookup", name |-> name]
        /\ result' = parseMakeRowsLookup(inputs, name)
    /\ UNCHANGED <<others, builder, parseArgs, parseLocals, parseHist>>

\* singleLookup(inputs[k], name)
CallSingleLookup ==
    /\ pc = "probe"
    /\ \E k \in 1..Len(inputs), name \in ProbeNames :
        /\ call' = [fn |-> "singleLookup", in |-> inputs[k], name |-> name]
        /\ result' = singleLookup(inputs[k], name)
    /\ UNCHANGED <<others, builder, parseArgs, parseLocals, parseHist>>

\* getColValue(row, col) on a row of the rows the inputs bind, or on an input
CallGetColValue ==
    /\ pc = "probe"
    /\ LET rl == rowsLookup(inputs, nRows)
           rows == IF rl.ok THEN rl.rows ELSE inputs
       IN \E k \in 1..Len(rows), col \in ProbeNames :
        /\ call' = [fn |-> "getColValue", in |-> rows[k], name |-> col]
        /\ result' = getColValue(rows[k], col)
    /\ UNCHANGED <<others, builder, parseArgs, parseLocals, parseHist>>

(***************************************************************************)
(* Scanning rows into a destination (ScanOneContext, ScanAllContext,       *)
(* scanOne, scanOneWithPlan, scanAll).                                     *)
(***************************************************************************)
\* an allocated object: its address and its content
Obj(a, v) == [kind |-> "ptr", addr |-> a, to |-> v]
\* what a Scanner holds after Scan(raw)
Scanned(t, raw) == [kind |-> "scanned", type |-> t, from |-> raw]

\* the zero value of a type
RECURSIVE Zero(_)
Zero(ft) ==
    CASE ft.k = "int" -> IntV(0)
      [] ft.k = "ptr" -> NilPtr
      [] ft.k = "slice" -> SliceOf("int", <<>>)
      [] ft.k = "struct" ->
            StructOf(ft.name, [j \in 1..Len(TypeDefs[ft.name]) |->
                                  Zero(TypeDefs[ft.name][j].ft)])

\* the type of the field at an index path (reflect.Type.FieldByIndex)
RECURSIVE TypeAt(_, _)
TypeAt(tname, path) ==
    LET ft == TypeDefs[tname][Head(path) + 1].ft IN
    IF Len(path) = 1 THEN ft ELSE TypeAt(StripPtr(ft).name, Tail(path))

\* walk a struct by index path, allocating the nil pointers on the way; at
\* the leaf, store val when set.  Returns the struct and the heap counter.
RECURSIVE WalkPath(_, _, _, _, _, _)
WalkPath(v, tname, path, h, set, val) ==
    LET idx == Head(path) + 1
        f == v.f[idx]
        ft == TypeDefs[tname][idx].ft
    IN IF Len(path) = 1
       THEN [v |-> IF set THEN [v EXCEPT !.f[idx] = val] ELSE v, h |-> h]
       ELSE IF ft.k = "ptr" THEN
           LET fresh == f.kind = "nilptr"
               obj == IF fresh THEN Obj(h + 1, Zero(ft.elem)) ELSE f
               r == WalkPath(obj.to, ft.elem.name, Tail(path),
                             IF fresh THEN h + 1 ELSE h, set, val)
           IN [v |-> [v EXCEPT !.f[idx] = [obj EXCEPT !.to = r.v]], h |-> r.h]
       ELSE LET r == WalkPath(f, ft.name, Tail(path), h, set, val)
            IN [v |-> [v EXCEPT !.f[idx] = r.v], h |-> r.h]

\* fieldByIndexAlloc(root, path): the intermediate pointers allocated
fieldByIndexAlloc(root, tname, path, h) == WalkPath(root, tname, path, h, FALSE, Nil)
\* setFieldByIndex(root, path, value)
setFieldByIndex(root, tname, path, h, value) == WalkPath(root, tname, path, h, TRUE, value)

\* the leaf at an index path of a struct value, through pointers
RECURSIVE LeafAt(_, _)
LeafAt(v, path) ==
    LET f == v.f[Head(path) + 1] IN
    IF Len(path) = 1 THEN f
    ELSE IF f.kind = "nilptr" THEN Nil
    ELSE LeafAt(IF f.kind = "ptr" THEN f.to ELSE f, Tail(path))

\* errors of the scan
ErrNoRows == [kind |-> "sql.ErrNoRows"]
ErrMoreThanOneRow == [kind |-> "ErrMoreThanOneRow"]
\* rows.Err(): the error the cursor ended with
ErrCursor == [kind |-> "rows.Err"]
\* database/sql: converting NULL to int is unsupported
ErrScanNull(c) == [kind |-> "rows.Scan", column |-> c]
ErrQuery == [kind |-> "db.QueryContext"]
ErrDest(why) == [kind |-> "dest", why |-> why]
ErrPlanAmbiguous(col) == [kind |-> "ErrFieldAmbiguous", col |-> col]

\* buildScanPlan(cols, dstT), column c on: kinds, paths and pointer columns
RECURSIVE PlanFrom(_, _, _, _)
PlanFrom(cols, tname, c, p) ==
    IF c > Len(cols) THEN p
    ELSE LET fmap == fieldIndexMap(tname)
             col == cols[c]
         IN IF col \notin DOMAIN fmap
            THEN PlanFrom(cols, tname, c + 1,
                          [p EXCEPT !.kinds = Append(@, "ckSink"), !.fPath = Append(@, <<>>)])
            ELSE IF fmap[col].ambiguous
            THEN [p EXCEPT !.err = ErrPlanAmbiguous(col)]
            ELSE LET ft == TypeAt(tname, fmap[col].index)
                     kd == IF "scanner" \in DOMAIN ft /\ ft.scanner THEN "ckScanner"
                           ELSE IF ft.k = "ptr" THEN "ckPtr"
                           ELSE "ckValue"
                 IN PlanFrom(cols, tname, c + 1,
                             [p EXCEPT !.kinds = Append(@, kd),
                                       !.fPath = Append(@, fmap[col].index),
                                       !.ptrIdx = IF kd = "ckPtr" THEN Append(@, c) ELSE @])
\* a bug: the pointer test comes before the sql.Scanner test
buildScanPlan_PtrFirst(cols, tname) ==
    LET p == PlanFrom(cols, tname, 1,
                      [err |-> NoErr, kinds |-> <<>>, fPath |-> <<>>, ptrIdx |-> <<>>])
    IN [p EXCEPT !.kinds =
            [c \in 1..Len(p.kinds) |->
                IF p.kinds[c] = "ckScanner" /\ TypeAt(tname, p.fPath[c]).k = "ptr"
                THEN "ckPtr" ELSE p.kinds[c]]]
buildScanPlan(cols, tname) ==
    PlanFrom(cols, tname, 1, [err |-> NoErr, kinds |-> <<>>, fPath |-> <<>>, ptrIdx |-> <<>>])

NoHolder == [kind |-> "none"]
\* plan.newState(): nil sinks, an empty **T holder per ckPtr column
newState(plan) ==
    [plan |-> plan,
     targets |-> [c \in 1..Len(plan.kinds) |-> "unset"],
     sinks |-> [c \in 1..Len(plan.kinds) |-> Nil],
     holders |-> [c \in 1..Len(plan.kinds) |->
                     IF plan.kinds[c] = "ckPtr" THEN NilPtr ELSE NoHolder],
     ptrScannerIdx |-> <<>>]

\* a bug: the holder keeps the pointer of the row before
holderReset_Keeps(h) == h
\* h.Elem().SetZero()
holderReset(h) == NilPtr

\* the "prepare targets" loop over the columns, column c on: s is the
\* scanState, d the struct scanned into, h the heap counter
RECURSIVE PrepareFrom(_, _, _, _, _)
PrepareFrom(s, d, tname, h, c) ==
    IF c > Len(s.plan.kinds) THEN [s |-> s, d |-> d, h |-> h]
    ELSE LET kd == s.plan.kinds[c]
             path == s.plan.fPath[c]
         IN CASE kd = "ckSink" ->
                    PrepareFrom([s EXCEPT !.targets[c] = "sink"], d, tname, h, c + 1)
              [] kd = "ckPtr" ->
                    PrepareFrom([s EXCEPT !.holders[c] = holderReset(@),
                                          !.targets[c] = "holder"], d, tname, h, c + 1)
              [] kd = "ckValue" ->
                    LET r == fieldByIndexAlloc(d, tname, path, h)
                    IN PrepareFrom([s EXCEPT !.targets[c] = "field"], r.v, tname, r.h, c + 1)
              [] kd = "ckScanner" ->
                    LET r == fieldByIndexAlloc(d, tname, path, h)
                    IN IF TypeAt(tname, path).k = "ptr"
                       THEN PrepareFrom([s EXCEPT !.targets[c] = "sink",
                                                  !.ptrScannerIdx = Append(@, c)],
                                        r.v, tname, r.h, c + 1)
                       ELSE PrepareFrom([s EXCEPT !.targets[c] = "field"],
                                        r.v, tname, r.h, c + 1)
prepareTargets(s, d, tname, h) ==
    PrepareFrom([s EXCEPT !.ptrScannerIdx = <<>>], d, tname, h, 1)

\* rows.Scan(targets...) of database/sql, column c on: a sink takes any value,
\* a **T holder is set to nil for NULL and to a new T otherwise, a Scanner has
\* its Scan called, a plain value refuses NULL; the first error ends the scan
RECURSIVE RowsScanFrom(_, _, _, _, _, _)
RowsScanFrom(s, d, tname, h, row, c) ==
    IF c > Len(row) THEN [s |-> s, d |-> d, h |-> h, err |-> NoErr]
    ELSE LET x == row[c]
             path == s.plan.fPath[c]
         IN CASE s.targets[c] = "sink" ->
                    RowsScanFrom([s EXCEPT !.sinks[c] = x], d, tname, h, row, c + 1)
              [] s.targets[c] = "holder" ->
                    IF x = Nil
                    THEN RowsScanFrom([s EXCEPT !.holders[c] = NilPtr], d, tname, h, row, c + 1)
                    ELSE RowsScanFrom([s EXCEPT !.holders[c] = Obj(h + 1, x)],
                                      d, tname, h + 1, row, c + 1)
              [] s.targets[c] = "field" /\ s.plan.kinds[c] = "ckScanner" ->
                    RowsScanFrom(s, setFieldByIndex(d, tname, path, h,
                                                    Scanned(TypeAt(tname, path).name, x)).v,
                                 tname, h, row, c + 1)
              [] OTHER ->
                    IF x = Nil THEN [s |-> s, d |-> d, h |-> h, err |-> ErrScanNull(c)]
                    ELSE RowsScanFrom(s, setFieldByIndex(d, tname, path, h, x).v,
                                      tname, h, row, c + 1)

\* the ckPtr post-assignments: the *T of every holder copied into its field
RECURSIVE PostPtrFrom(_, _, _, _, _)
PostPtrFrom(s, d, tname, h, k) ==
    IF k > Len(s.plan.ptrIdx) THEN [d |-> d, h |-> h]
    ELSE LET c == s.plan.ptrIdx[k]
             r == setFieldByIndex(d, tname, s.plan.fPath[c], h, s.holders[c])
         IN PostPtrFrom(s, r.v, tname, r.h, k + 1)

\* a bug: the pointer is allocated for NULL as well
scannerLeaf_Always(raw, a) == Obj(a, Scanned("Upper", raw))
\* a pointer-to-Scanner field after the row: nil on NULL, else a new T that
\* has scanned the raw value
scannerLeaf(raw, a) == IF raw = Nil THEN NilPtr ELSE Obj(a, Scanned("Upper", raw))

\* the post-processing of the pointer-to-Scanner fields
RECURSIVE PostScannerFrom(_, _, _, _, _)
PostScannerFrom(s, d, tname, h, k) ==
    IF k > Len(s.ptrScannerIdx) THEN [d |-> d, h |-> h]
    ELSE LET c == s.ptrScannerIdx[k]
             raw == s.sinks[c]
             r == setFieldByIndex(d, tname, s.plan.fPath[c], h, scannerLeaf(raw, h + 1))
         IN PostScannerFrom(s, r.v, tname, IF raw = Nil THEN r.h ELSE r.h + 1, k + 1)

\* rows.Scan and what follows it for a struct: the state, the struct, the
\* heap counter and the error
Scanned3(s, r3) == [s |-> s, d |-> r3.d, h |-> r3.h, err |-> NoErr]
Scanned2(s, r2, tname) == Scanned3(s, PostScannerFrom(s, r2.d, tname, r2.h, 1))
Scanned1(r1, tname) ==
    IF r1.err # NoErr THEN r1
    ELSE Scanned2(r1.s, PostPtrFrom(r1.s, r1.d, tname, r1.h, 1), tname)
scanRow(s, d, tname, h, row) == Scanned1(RowsScanFrom(s, d, tname, h, row, 1), tname)

\* the rows of the cursor not yet fetched; rows.Next() reports whether there
\* is one, rows.Err() the error the cursor ended with
HasNext == cursor.pos < Len(cursor.rows)
rowsErr == IF cursor.fails THEN ErrCursor ELSE NoErr
CurrentRow == cursor.rows[cursor.pos]

\* return err, with the deferred rows.Close()
Return(err) ==
    /\ mpc' = "done" /\ mret' = err

(***************************************************************************)
(* Builder.ScanOneContext and scanOne.                                     *)
(***************************************************************************)
\* q, args, err := b.Build(); rows, err := db.QueryContext(ctx, q, args...)
Query ==
    /\ mpc = "start"
    /\ \E outcome \in {"ok", "build", "query"} :
        IF outcome = "ok"
        THEN /\ cursor' = [cursor EXCEPT !.opened = TRUE]
             /\ mpc' = IF dest.mode = "one" THEN "first" ELSE "begin"
             /\ mret' = mret
        ELSE /\ Return(IF outcome = "build" THEN ErrParamMissing(nA) ELSE ErrQuery)
             /\ cursor' = cursor
    /\ UNCHANGED <<dest, scanSt, heap, notMapper>>

\* if !rows.Next() { return rows.Err() or sql.ErrNoRows }
OneFirst ==
    /\ mpc = "first"
    /\ IF HasNext
       THEN /\ cursor' = [cursor EXCEPT !.pos = @ + 1]
            /\ mpc' = "scanOne" /\ mret' = mret
       ELSE /\ cursor' = [cursor EXCEPT !.closed = TRUE]
            /\ Return(IF rowsErr # NoErr THEN rowsErr ELSE ErrNoRows)
    /\ UNCHANGED <<dest, scanSt, heap, notMapper>>

\* scanOne(rows, dest) up to rows.Scan: the checks of dest, and for a struct
\* the plan, its state and the targets (scanOneWithPlan)
OnePrepare ==
    /\ mpc = "scanOne"
    /\ IF dest.type = "int" THEN
           IF Len(cursor.cols) # 1
           THEN /\ Return(ErrDest("requires 1 column"))
                /\ cursor' = [cursor EXCEPT !.closed = TRUE]
                /\ UNCHANGED <<dest, scanSt, heap>>
           ELSE /\ mpc' = "rowsScan"
                /\ UNCHANGED <<cursor, dest, scanSt, heap, mret>>
       ELSE \E plan \in {buildScanPlan(cursor.cols, dest.type)} :
           IF plan.err # NoErr
           THEN /\ Return(plan.err)
                /\ cursor' = [cursor EXCEPT !.closed = TRUE]
                /\ UNCHANGED <<dest, scanSt, heap>>
           ELSE \E r \in {prepareTargets(newState(plan), dest.v, dest.type, heap)} :
                /\ scanSt' = r.s /\ dest' = [dest EXCEPT !.v = r.d] /\ heap' = r.h
                /\ mpc' = "rowsScan"
                /\ UNCHANGED <<cursor, mret>>
    /\ UNCHANGED notMapper

\* rows.Scan and the post-assignments of scanOne; on success ScanOneContext
\* goes on to the second rows.Next()
OneScan ==
    /\ mpc = "rowsScan" /\ dest.mode = "one"
    /\ IF dest.type = "int" THEN
           IF CurrentRow[1] = Nil
           THEN /\ Return(ErrScanNull(1))
                /\ cursor' = [cursor EXCEPT !.closed = TRUE]
                /\ UNCHANGED <<dest, scanSt, heap>>
           ELSE /\ dest' = [dest EXCEPT !.v = CurrentRow[1]]
                /\ mpc' = "second"
                /\ UNCHANGED <<cursor, scanSt, heap, mret>>
       ELSE \E r \in {scanRow(scanSt, dest.v, dest.type, heap, CurrentRow)} :
           /\ scanSt' = r.s /\ dest' = [dest EXCEPT !.v = r.d] /\ heap' = r.h
           /\ IF r.err # NoErr
              THEN Return(r.err) /\ cursor' = [cursor EXCEPT !.closed = TRUE]
              ELSE mpc' = "second" /\ UNCHANGED <<cursor, mret>>
    /\ UNCHANGED notMapper

\* a bug: the second rows.Next() is not made
OneSecond_Ignores ==
    /\ mpc = "second"
    /\ cursor' = [cursor EXCEPT !.closed = TRUE]
    /\ Return(rowsErr)
    /\ UNCHANGED <<dest, scanSt, heap, notMapper>>

\* if rows.Next() { return ErrMoreThanOneRow }; return rows.Err()
OneSecond ==
    /\ mpc = "second"
    /\ cursor' = [cursor EXCEPT !.closed = TRUE,
                                !.pos = IF HasNext THEN @ + 1 ELSE @]
    /\ Return(IF HasNext THEN ErrMoreThanOneRow ELSE rowsErr)
    /\ UNCHANGED <<dest, scanSt, heap, notMapper>>

(***************************************************************************)
(* Builder.ScanAllContext and scanAll.                                     *)
(***************************************************************************)
\* the slice *dest: its backing array and its length
Elems == SubSeq(dest.arr, 1, dest.len)

\* scanAll up to the loop: the length reset, the plan and its state
AllBegin ==
    /\ mpc = "begin"
    /\ IF dest.type = "int" THEN
           IF Len(cursor.cols) # 1
           THEN /\ Return(ErrDest("requires 1 column"))
                /\ cursor' = [cursor EXCEPT !.closed = TRUE]
                /\ dest' = [dest EXCEPT !.len = 0]
                /\ scanSt' = scanSt
           ELSE /\ mpc' = "next" /\ dest' = [dest EXCEPT !.len = 0]
                /\ UNCHANGED <<cursor, scanSt, mret>>
       ELSE \E plan \in {buildScanPlan(cursor.cols, dest.type)} :
           /\ dest' = [dest EXCEPT !.len = 0]
           /\ IF plan.err # NoErr
              THEN /\ Return(plan.err)
                   /\ cursor' = [cursor EXCEPT !.closed = TRUE]
                   /\ scanSt' = scanSt
              ELSE /\ scanSt' = newState(plan)
                   /\ mpc' = "next"
                   /\ UNCHANGED <<cursor, mret>>
    /\ UNCHANGED <<heap, notMapper>>

\* the slice grown by one element: resliced within its capacity, or copied
\* into a new array of twice the capacity
Grown ==
    IF dest.len < Len(dest.arr) THEN dest.arr
    ELSE LET newCap == IF Len(dest.arr) = 0 THEN 1 ELSE 2 * Len(dest.arr)
             zero == IF dest.type = "int" THEN IntV(0)
                     ELSE IF dest.ptrs THEN NilPtr
                     ELSE Zero(TStruct(dest.type))
         IN [k \in 1..newCap |-> IF k <= dest.len THEN dest.arr[k] ELSE zero]

\* the struct a row is scanned into: a new one for a []*T (reflect.New), the
\* element at the new index for a []T
NewElem == IF dest.ptrs THEN Zero(TStruct(dest.type)) ELSE Grown[dest.len + 1]
NewElemHeap == IF dest.ptrs THEN heap + 1 ELSE heap

\* a bug: the error the cursor ended with is dropped
AllNext_NoErr ==
    /\ mpc = "next"
    /\ IF ~HasNext
       THEN /\ Return(NoErr)
            /\ cursor' = [cursor EXCEPT !.closed = TRUE]
            /\ UNCHANGED <<dest, scanSt, heap>>
       ELSE /\ cursor' = [cursor EXCEPT !.pos = @ + 1]
            /\ mpc' = "rowsScan" /\ mret' = mret
            /\ IF dest.type = "int"
               THEN /\ dest' = [dest EXCEPT !.arr = Grown, !.len = @ + 1]
                    /\ UNCHANGED <<scanSt, heap>>
               ELSE \E r \in {prepareTargets(scanSt, NewElem, dest.type, NewElemHeap)} :
                       /\ scanSt' = r.s /\ heap' = r.h
                       /\ dest' = [dest EXCEPT !.arr = Grown, !.len = @ + 1,
                                               !.cur = r.d, !.curAddr = NewElemHeap]
    /\ UNCHANGED notMapper

\* for rows.Next() { grow the slice; prepare the targets } ... return rows.Err()
AllNext ==
    /\ mpc = "next"
    /\ IF ~HasNext
       THEN /\ Return(rowsErr)
            /\ cursor' = [cursor EXCEPT !.closed = TRUE]
            /\ UNCHANGED <<dest, scanSt, heap>>
       ELSE /\ cursor' = [cursor EXCEPT !.pos = @ + 1]
            /\ mpc' = "rowsScan" /\ mret' = mret
            /\ IF dest.type = "int"
               THEN /\ dest' = [dest EXCEPT !.arr = Grown, !.len = @ + 1]
                    /\ UNCHANGED <<scanSt, heap>>
               ELSE \E r \in {prepareTargets(scanSt, NewElem, dest.type, NewElemHeap)} :
                       /\ scanSt' = r.s /\ heap' = r.h
                       /\ dest' = [dest EXCEPT !.arr = Grown, !.len = @ + 1,
                                               !.cur = r.d, !.curAddr = NewElemHeap]
    /\ UNCHANGED notMapper

\* rows.Scan and the post-assignments of one row of scanAll; the element is
\* the struct scanned into ([]T) or a pointer to it ([]*T)
AllScan ==
    /\ mpc = "rowsScan" /\ dest.mode = "all"
    /\ IF dest.type = "int" THEN
           IF CurrentRow[1] = Nil
           THEN /\ Return(ErrScanNull(1))
                /\ cursor' = [cursor EXCEPT !.closed = TRUE]
                /\ UNCHANGED <<dest, scanSt, heap>>
           ELSE /\ dest' = [dest EXCEPT !.arr[dest.len] = CurrentRow[1]]
                /\ mpc' = "next"
                /\ UNCHANGED <<cursor, scanSt, heap, mret>>
       ELSE \E r \in {scanRow(scanSt, dest.cur, dest.type, heap, CurrentRow)} :
           /\ scanSt' = r.s /\ heap' = r.h
           /\ dest' = [dest EXCEPT
                         !.cur = r.d,
                         !.arr[dest.len] = IF ~dest.ptrs THEN r.d
                                           ELSE IF r.err # NoErr THEN @
                                           ELSE Obj(dest.curAddr, r.d)]
           /\ IF r.err # NoErr
              THEN Return(r.err) /\ cursor' = [cursor EXCEPT !.closed = TRUE]
              ELSE mpc' = "next" /\ UNCHANGED <<cursor, mret>>
    /\ UNCHANGED notMapper

NoCursor == [opened |-> FALSE]
IdleMapper ==
    /\ cursor = NoCursor /\ dest = Nil /\ scanSt = Nil /\ heap = 0
    /\ mpc = "idle" /\ mret = NoErr

(***************************************************************************)
(* Builders of one SQLR: SQLR.Write takes a Builder from the sync.Pool,     *)
(* Build and Release put it back.                                          *)
(***************************************************************************)
ErrBuilderReleased == [kind |-> "ErrBuilderReleased"]

\* the Builder that pool.New makes
NewBuilder == [parts |-> <<>>, inputs |-> <<>>, released |-> FALSE, bag |-> NoBag, err |-> NoErr]

\* the fragment or the value of the k-th operation on handle h
Frag(h, k) == <<10 * h + k>>

\* a bug: Get leaves the object in the pool
poolTake_Leaves(p, o) == p
\* pool.Get(): the object leaves the pool
poolTake(p, o) == p \ {o}

\* in := b.inputs; if len(b.bag) > 0 { in = append(in, b.bag) }
InputsOf(b) ==
    IF Cardinality(DOMAIN b.bag.m) > 0 THEN Append(b.inputs, P(b.bag.m)) ELSE b.inputs

\* the call parse(d, strings.Join(parts, ""), in, cfg); its result is a
\* function of its arguments, so the call stands for what it returns
parseCall(b) == [q |-> Flatten(b.parts), in |-> InputsOf(b)]
NoOut == [q |-> <<>>, in |-> <<>>]

\* what Preview and Build return for a builder that is not released
Rendered(b) ==
    IF b.err # NoErr THEN [err |-> b.err, out |-> NoOut]
    ELSE [err |-> NoErr, out |-> parseCall(b)]

\* Builder.Write and Builder.Writef on the object b
\* a bug: Write appends although an error is recorded
builderWrite_OverError(b, frag) ==
    IF b.released THEN [b EXCEPT !.err = ErrBuilderReleased]
    ELSE [b EXCEPT !.parts = Append(@, frag)]

builderWrite(b, frag) ==
    IF b.released THEN [b EXCEPT !.err = ErrBuilderReleased]
    ELSE IF b.err # NoErr THEN b
    ELSE [b EXCEPT !.parts = Append(@, frag)]

\* Builder.Bind on the object b: Bind(x), Bind("a", v), Bind("a")
builderBind(b, form, v) ==
    IF b.released THEN [b EXCEPT !.err = ErrBuilderReleased]
    ELSE IF b.err # NoErr THEN b
    ELSE CASE form = "one" -> [b EXCEPT !.inputs = Append(@, v)]
           [] form = "pairs" -> [b EXCEPT !.bag = BagPut(ensureBag(@), nA, v)]
           [] form = "odd" -> [b EXCEPT !.err = ErrBindOdd(3)]

\* the body of Builder.Release for a builder that is not released
released(b) ==
    [parts |-> <<>>, inputs |-> <<>>, released |-> TRUE, bag |-> NoBag, err |-> NoErr]

\* the statement of a builder: what Release clears
Stmt(b) == [parts |-> b.parts, inputs |-> b.inputs, bag |-> b.bag, err |-> b.err]

NoOp == [h |-> 0, op |-> "none", stale |-> FALSE, err |-> NoErr, out |-> NoOut]
\* the history after operation op through handle h has returned
Returned(h, op, err, out) ==
    [h |-> h, op |-> op, stale |-> hnd[h].finished, err |-> err, out |-> out]

\* the most calls of SQLR.Write and of Builder methods
MaxOps == 5

\* the calls so far: SQLR.Write for the handles k and above, and the Builder
\* methods called on them
RECURSIVE OpsFrom(_)
OpsFrom(k) == IF k > Len(hnd) THEN 0 ELSE 1 + hnd[k].ops + OpsFrom(k + 1)
\* the goroutines between pool.Get and the return of SQLR.Write
Getting == {x \in policy.goroutines : gr[x].pc = "got"}

\* goroutine g may call a method on handle h
Usable(g, h) ==
    /\ gr[g].pc = "idle"
    /\ hnd[h].owner = g
    /\ OpsFrom(1) < MaxOps
    /\ policy.keeps \/ ~hnd[h].finished

\* what the owner of a handle has written through it while it was in use
Wrote(h, ps, ins, bg, err) ==
    IF hnd[h].finished \/ hnd[h].err # NoErr
    THEN [hnd EXCEPT ![h].ops = @ + 1]
    ELSE [hnd EXCEPT ![h].ops = @ + 1, ![h].parts = ps, ![h].inputs = ins,
                     ![h].bag = bg, ![h].err = err]

\* SQLR.Write: b := s.pool.Get().(*Builder), an object of the pool or a new one
PoolGet(g) ==
    /\ gr[g].pc = "idle" /\ OpsFrom(1) + Cardinality(Getting) < MaxOps
    /\ \E o \in pool \cup {Len(objs) + 1} :
        /\ objs' = IF o \in pool THEN objs ELSE Append(objs, NewBuilder)
        /\ pool' = poolTake(pool, o)
        /\ gr' = [gr EXCEPT ![g] = [pc |-> "got", o |-> o, h |-> 0, ret |-> NoOp]]
    /\ UNCHANGED <<hnd, lastOp, policy, notHandles>>

\* SQLR.Write after Get: the fields reset, the chunk appended, b returned
SQLRWrite(g) ==
    /\ gr[g].pc = "got"
    /\ objs' = [objs EXCEPT ![gr[g].o] =
                   [@ EXCEPT !.released = FALSE, !.err = NoErr,
                             !.parts = <<Frag(Len(hnd) + 1, 0)>>, !.inputs = <<>>]]
    /\ hnd' = Append(hnd, [obj |-> gr[g].o, owner |-> g, finished |-> FALSE, ops |-> 0,
                           parts |-> <<Frag(Len(hnd) + 1, 0)>>, inputs |-> <<>>,
                           bag |-> NoBag, err |-> NoErr])
    /\ gr' = [gr EXCEPT ![g].pc = "idle"]
    /\ lastOp' = [h |-> Len(hnd) + 1, op |-> "SQLR.Write", stale |-> FALSE,
                  err |-> NoErr, out |-> NoOut]
    /\ UNCHANGED <<pool, policy, notHandles>>

\* b.Write(sql); b.Writef(format, args...) appends fmt.Sprintf(format, args...)
\* in the same way
BuilderWrite(g, h) ==
    /\ Usable(g, h)
    /\ objs' = [objs EXCEPT ![hnd[h].obj] = builderWrite(@, Frag(h, hnd[h].ops + 1))]
    /\ hnd' = Wrote(h, Append(hnd[h].parts, Frag(h, hnd[h].ops + 1)),
                    hnd[h].inputs, hnd[h].bag, NoErr)
    /\ lastOp' = Returned(h, "Write", objs'[hnd[h].obj].err, NoOut)
    /\ UNCHANGED <<pool, gr, policy, notHandles>>

\* b.Bind(args...)
BuilderBind(g, h) ==
    /\ Usable(g, h)
    /\ \E form \in {"one", "pairs", "odd"} :
        /\ objs' = [objs EXCEPT ![hnd[h].obj] =
                       builderBind(@, form, IntV(10 * h + hnd[h].ops + 1))]
        /\ hnd' = Wrote(h, hnd[h].parts,
                        IF form = "one"
                        THEN Append(hnd[h].inputs, IntV(10 * h + hnd[h].ops + 1))
                        ELSE hnd[h].inputs,
                        IF form = "pairs"
                        THEN BagPut(ensureBag(hnd[h].bag), nA, IntV(10 * h + hnd[h].ops + 1))
                        ELSE hnd[h].bag,
                        IF form = "odd" THEN ErrBindOdd(3) ELSE NoErr)
        /\ lastOp' = Returned(h, "Bind", objs'[hnd[h].obj].err, NoOut)
    /\ UNCHANGED <<pool, gr, policy, notHandles>>

\* b.Bind("a", v, 2, v): the first pair is put into the bag, the key of the
\* second is not a string
builderBindKey(b, v) ==
    IF b.released THEN [b EXCEPT !.err = ErrBuilderReleased]
    ELSE IF b.err # NoErr THEN b
    ELSE [b EXCEPT !.bag = BagPut(ensureBag(@), nA, v), !.err = ErrBindKey(2)]
BuilderBindKey(g, h) ==
    /\ Usable(g, h)
    /\ objs' = [objs EXCEPT ![hnd[h].obj] =
                   builderBindKey(@, IntV(10 * h + hnd[h].ops + 1))]
    /\ hnd' = Wrote(h, hnd[h].parts, hnd[h].inputs,
                    BagPut(ensureBag(hnd[h].bag), nA, IntV(10 * h + hnd[h].ops + 1)),
                    ErrBindKey(2))
    /\ lastOp' = Returned(h, "Bind", objs'[hnd[h].obj].err, NoOut)
    /\ UNCHANGED <<pool, gr, policy, notHandles>>

\* a bug: Preview releases the builder as Build does
BuilderPreview_Releases(g, h) ==
    /\ Usable(g, h)
    /\ \E r \in {Rendered(objs[hnd[h].obj])} :
        lastOp' = IF objs[hnd[h].obj].released
                THEN Returned(h, "Preview", ErrBuilderReleased, NoOut)
                ELSE Returned(h, "Preview", r.err, r.out)
    /\ objs' = [objs EXCEPT ![hnd[h].obj] = released(@)]
    /\ pool' = pool \cup {hnd[h].obj}
    /\ hnd' = [hnd EXCEPT ![h].ops = @ + 1]
    /\ UNCHANGED <<gr, policy, notHandles>>

\* b.Preview()
BuilderPreview(g, h) ==
    /\ Usable(g, h)
    /\ \E r \in {Rendered(objs[hnd[h].obj])} :
        lastOp' = IF objs[hnd[h].obj].released
                THEN Returned(h, "Preview", ErrBuilderReleased, NoOut)
                ELSE Returned(h, "Preview", r.err, r.out)
    /\ hnd' = [hnd EXCEPT ![h].ops = @ + 1]
    /\ UNCHANGED <<objs, pool, gr, policy, notHandles>>

\* b.Build() up to its return statement: the released check, the snapshot of
\* the statement, parse; Exec and the Scan methods start with it
BuildSnapshot(g, h) ==
    /\ Usable(g, h)
    /\ IF objs[hnd[h].obj].released
       THEN /\ lastOp' = Returned(h, "Build", ErrBuilderReleased, NoOut)
            /\ hnd' = [hnd EXCEPT ![h].ops = @ + 1]
            /\ gr' = gr
       ELSE /\ \E r \in {Rendered(objs[hnd[h].obj])} :
                gr' = [gr EXCEPT ![g] = [pc |-> "building", o |-> hnd[h].obj, h |-> h,
                                         ret |-> Returned(h, "Build", r.err, r.out)]]
            /\ UNCHANGED <<hnd, lastOp>>
    /\ UNCHANGED <<objs, pool, policy, notHandles>>

\* b.Release(): nothing for a released builder; else the statement is cleared
\* and the object put into the pool
ReleaseObject(o) ==
    IF objs[o].released THEN UNCHANGED <<objs, pool>>
    ELSE /\ objs' = [objs EXCEPT ![o] = released(@)]
         /\ pool' = pool \cup {o}

\* the deferred b.Release() of Build, and its return
BuildRelease(g) ==
    /\ gr[g].pc = "building"
    /\ ReleaseObject(gr[g].o)
    /\ hnd' = [hnd EXCEPT ![gr[g].h].finished = TRUE, ![gr[g].h].ops = @ + 1]
    /\ lastOp' = gr[g].ret
    /\ gr' = [gr EXCEPT ![g] = [pc |-> "idle", o |-> 0, h |-> 0, ret |-> NoOp]]
    /\ UNCHANGED <<policy, notHandles>>

\* b.Release() called by the owner of the handle
BuilderRelease(g, h) ==
    /\ Usable(g, h)
    /\ ReleaseObject(hnd[h].obj)
    /\ hnd' = [hnd EXCEPT ![h].finished = TRUE, ![h].ops = @ + 1]
    /\ lastOp' = Returned(h, "Release", NoErr, NoOut)
    /\ UNCHANGED <<gr, policy, notHandles>>

NoLast == NoOp
IdleHandles ==
    /\ objs = <<>> /\ pool = {} /\ hnd = <<>>
    /\ gr = <<>> /\ lastOp = NoLast /\ policy = [keeps |-> FALSE, goroutines |-> {}]

(***************************************************************************)
(* The two-generation caches (fieldCache, planCache): get and put under a  *)
(* sync.RWMutex.  A generation is a map from keys to values.               *)
(***************************************************************************)
\* c.max
CacheMax == 2
\* the types (or plan keys) looked up
CacheKeys == 1..(CacheMax + 2)
CacheGoroutines == {1, 2}

\* the value computed for a key (the field map of a type, the plan of a key)
ValueOf(k) == [of |-> k]
NoValue == [of |-> 0]
EmptyGen == [k \in {} |-> NoValue]
\* a goroutine outside get and put
IdleCaller == [pc |-> "idle", op |-> "", key |-> 1, hit |-> FALSE, val |-> NoValue, from |-> ""]

\* a bug: the generations rotate one entry too late
Rotates_Late(c) == Cardinality(DOMAIN c) > CacheMax
\* if len(c.curr) >= c.max
Rotates(c) == Cardinality(DOMAIN c) >= CacheMax

\* c.mu.RLock() of get(k)
GetRLock(g) ==
    /\ cg[g].pc = "idle" /\ mu.writer = 0
    /\ \E k \in CacheKeys :
          cg' = [cg EXCEPT ![g] = [IdleCaller EXCEPT !.pc = "rlocked", !.op = "get", !.key = k]]
    /\ mu' = [mu EXCEPT !.readers = @ \cup {g}]
    /\ UNCHANGED <<curr, prev, age, notCache>>

\* a bug: an entry found in prev is returned without being promoted
GetLookup_NoPromote(g) ==
    /\ cg[g].pc = "rlocked"
    /\ mu' = [mu EXCEPT !.readers = @ \ {g}]
    /\ cg' = [cg EXCEPT ![g] =
                 IF cg[g].key \in DOMAIN curr
                 THEN [@ EXCEPT !.pc = "idle", !.hit = TRUE, !.val = curr[cg[g].key],
                                !.from = "curr"]
                 ELSE IF cg[g].key \in DOMAIN prev
                 THEN [@ EXCEPT !.pc = "idle", !.hit = TRUE, !.val = prev[cg[g].key],
                                !.from = "prev"]
                 ELSE [@ EXCEPT !.pc = "idle", !.from = "none"]]
    /\ UNCHANGED <<curr, prev, age, notCache>>

\* get under the read lock: found in curr, found in prev, or missing; then
\* c.mu.RUnlock()
GetLookup(g) ==
    /\ cg[g].pc = "rlocked"
    /\ mu' = [mu EXCEPT !.readers = @ \ {g}]
    /\ cg' = [cg EXCEPT ![g] =
                 IF cg[g].key \in DOMAIN curr
                 THEN [@ EXCEPT !.pc = "idle", !.hit = TRUE, !.val = curr[cg[g].key],
                                !.from = "curr"]
                 ELSE IF cg[g].key \in DOMAIN prev
                 THEN [@ EXCEPT !.pc = "promote", !.hit = TRUE, !.val = prev[cg[g].key],
                                !.from = "prev"]
                 ELSE [@ EXCEPT !.pc = "idle", !.from = "none"]]
    /\ UNCHANGED <<curr, prev, age, notCache>>

\* a bug: the promoting get writes under the lock it shares with the readers
GetLock_Shared(g) ==
    /\ cg[g].pc = "promote" /\ mu.writer = 0
    /\ mu' = [mu EXCEPT !.writer = g]
    /\ cg' = [cg EXCEPT ![g].pc = "locked"]
    /\ UNCHANGED <<curr, prev, age, notCache>>

\* c.mu.Lock() of get, to promote the entry found in prev
GetLock(g) ==
    /\ cg[g].pc = "promote" /\ mu.writer = 0 /\ mu.readers = {}
    /\ mu' = [mu EXCEPT !.writer = g]
    /\ cg' = [cg EXCEPT ![g].pc = "locked"]
    /\ UNCHANGED <<curr, prev, age, notCache>>

\* c.mu.Lock() of put(k, v), v being the value computed for k
PutLock(g) ==
    /\ cg[g].pc = "idle" /\ mu.writer = 0 /\ mu.readers = {}
    /\ mu' = [mu EXCEPT !.writer = g]
    /\ \E k \in CacheKeys :
          cg' = [cg EXCEPT ![g] = [IdleCaller EXCEPT !.pc = "locked", !.op = "put", !.key = k,
                                                    !.val = ValueOf(k)]]
    /\ UNCHANGED <<curr, prev, age, notCache>>

\* a bug: the rotation drops the current generation instead of keeping it
Stored_Drops(k, v) ==
    IF Rotates(curr)
    THEN [curr |-> (k :> v), prev |-> prev]
    ELSE [curr |-> (k :> v) @@ curr, prev |-> prev]
\* the generations after the entry k -> v is stored: rotated when curr is full
Stored(k, v) ==
    IF Rotates(curr)
    THEN [curr |-> (k :> v), prev |-> curr]
    ELSE [curr |-> (k :> v) @@ curr, prev |-> prev]

\* the key whose insertions are counted; before its first insertion it has
\* no age, and the age is counted up to AgeCap
Watched == CHOOSE k \in CacheKeys : \A x \in CacheKeys : k <= x
NoAge == 0 - 1
AgeCap == CacheMax + 2
Aged(k) ==
    IF k = Watched THEN 0
    ELSE IF age = NoAge \/ age = AgeCap THEN age
    ELSE age + 1

\* under the write lock, in get and in put: rotate when curr is full, store
\* the entry in curr; then c.mu.Unlock()
Store(g) ==
    /\ cg[g].pc = "locked"
    /\ curr' = Stored(cg[g].key, cg[g].val).curr
    /\ prev' = Stored(cg[g].key, cg[g].val).prev
    /\ age' = Aged(cg[g].key)
    /\ mu' = [mu EXCEPT !.writer = 0]
    /\ cg' = [cg EXCEPT ![g].pc = "idle"]
    /\ UNCHANGED notCache

IdleCache ==
    /\ curr = EmptyGen /\ prev = EmptyGen /\ mu = [readers |-> {}, writer |-> 0] /\ cg = <<>>
    /\ age = NoAge

(***************************************************************************)
(* Concurrent scans of rows with the same columns into the same struct     *)
(* type: getScanPlan, plan.newState() and the steps of scanOneWithPlan.    *)
(* A scanPlan and a scanState are objects; `by` is the set of goroutines    *)
(* that have read or written a scanState.                                  *)
(***************************************************************************)
ScanGoroutines == {1, 2}
\* the columns of the result sets and the struct type scanned into
PlanCols == <<nA, nB, nC>>
PlanType == "S"

\* a bug: the buffers are kept with the plan, every call gets the same ones
newStateAt_Plan(pl) ==
    IF \E k \in 1..Len(mem.states) : mem.states[k].plan = pl
    THEN CHOOSE k \in 1..Len(mem.states) : mem.states[k].plan = pl
    ELSE Len(mem.states) + 1
\* st := &scanState{...}: the address of the new object
newStateAt(pl) == Len(mem.states) + 1

\* the scanState objects after goroutine g has used the one at address a,
\* leaving it as s
Used(g, a, s) ==
    [mem.states EXCEPT ![a].s = s, ![a].by = @ \cup {g}]

\* scanPlanCache.get(key): the cached plan, or a miss
GetScanPlan(g) ==
    /\ sc[g].pc = "start"
    /\ sc' = [sc EXCEPT ![g].pc = IF mem.cache # 0 THEN "newState" ELSE "build",
                        ![g].plan = mem.cache]
    /\ UNCHANGED <<mem, notPlans>>

\* p, err := buildScanPlan(cols, dstT): a new plan object
BuildPlan(g) ==
    /\ sc[g].pc = "build"
    /\ mem' = [mem EXCEPT !.plans = Append(@, [p |-> buildScanPlan(PlanCols, PlanType),
                                                stored |-> FALSE])]
    /\ sc' = [sc EXCEPT ![g].pc = "put", ![g].plan = Len(mem.plans) + 1]
    /\ UNCHANGED notPlans

\* scanPlanCache.put(key, p)
PutPlan(g) ==
    /\ sc[g].pc = "put"
    /\ mem' = [mem EXCEPT !.cache = sc[g].plan, !.plans[sc[g].plan].stored = TRUE]
    /\ sc' = [sc EXCEPT ![g].pc = "newState"]
    /\ UNCHANGED notPlans

\* st := plan.newState()
NewState(g) ==
    /\ sc[g].pc = "newState"
    /\ \E a \in {newStateAt(sc[g].plan)} :
        /\ mem' = [mem EXCEPT !.states =
                      [k \in 1..(IF a > Len(@) THEN a ELSE Len(@)) |->
                          IF k = a
                          THEN [plan |-> sc[g].plan,
                                s |-> newState(mem.plans[sc[g].plan].p),
                                by |-> IF a > Len(@) THEN {g} ELSE @[a].by \cup {g}]
                          ELSE @[k]]]
        /\ sc' = [sc EXCEPT ![g].pc = "prepare", ![g].st = a]
    /\ UNCHANGED notPlans

\* the "prepare targets" loop of scanOneWithPlan
PrepareTargets(g) ==
    /\ sc[g].pc = "prepare"
    /\ \E r \in {prepareTargets(mem.states[sc[g].st].s, sc[g].d, PlanType, sc[g].h)} :
        /\ mem' = [mem EXCEPT !.states = Used(g, sc[g].st, r.s)]
        /\ sc' = [sc EXCEPT ![g].pc = "scan", ![g].d = r.d, ![g].h = r.h]
    /\ UNCHANGED notPlans

\* rows.Scan(st.targets...)
RowsScan(g) ==
    /\ sc[g].pc = "scan"
    /\ \E r \in {RowsScanFrom(mem.states[sc[g].st].s, sc[g].d, PlanType, sc[g].h,
                               sc[g].row, 1)} :
        /\ mem' = [mem EXCEPT !.states = Used(g, sc[g].st, r.s)]
        /\ sc' = [sc EXCEPT ![g].pc = IF r.err # NoErr THEN "done" ELSE "post",
                            ![g].d = r.d, ![g].h = r.h, ![g].err = r.err]
    /\ UNCHANGED notPlans

\* the post-assignments from the holders and the sinks; return nil
PostAssign(g) ==
    /\ sc[g].pc = "post"
    /\ \E r \in {Scanned2(mem.states[sc[g].st].s,
                           PostPtrFrom(mem.states[sc[g].st].s, sc[g].d, PlanType,
                                       sc[g].h, 1),
                           PlanType)} :
        /\ mem' = [mem EXCEPT !.states = Used(g, sc[g].st, r.s)]
        /\ sc' = [sc EXCEPT ![g].pc = "done", ![g].d = r.d, ![g].h = r.h]
    /\ UNCHANGED notPlans

IdlePlans == sc = <<>> /\ mem = [cache |-> 0, plans |-> <<>>, states |-> <<>>]

IdleOthers == IdleMapper /\ IdleHandles /\ IdleCache /\ IdlePlans

\* Config values a caller passes to New
UserMaxParams == {-1, 0, 1, 3}

\* a lexical template: some text, segments, and a trailing placeholder or not
LexPre == {<<>>, <<"x", " ">>}
LexTemplates ==
    { pre \o t \o post : pre \in LexPre,
                         t \in Templates(LexSegs, MaxSegs),
                         post \in {<<>>, PhA} }

InitLex ==
    /\ q \in LexTemplates
    /\ inputs = <<Bag(IntV(1), IntV(7))>>
    /\ config = defaultConfig(dialect, [MaxParams |-> 0, MaxNameLen |-> 0])

InitValues ==
    /\ q \in Templates(ValueSegs, MaxPh)
    /\ inputs \in { <<Bag(v, IntV(7))>> : v \in ValsA } \cup ValueInputs
    /\ \E mp \in UserMaxParams :
           config = defaultConfig(dialect, [MaxParams |-> mp, MaxNameLen |-> 0])

InitRows ==
    /\ q \in Templates(RowsSegs, MaxPh)
    /\ inputs \in RowsInputs
    /\ \E mp \in UserMaxParams :
           config = defaultConfig(dialect, [MaxParams |-> mp, MaxNameLen |-> 0])

InitLimits ==
    /\ q \in LimitTemplates
    /\ inputs \in { <<P((nA :> IntV(1)) @@ (nB :> IntV(7)) @@ (nAB :> IntV(3)))>>,
                    <<RowsBag(<<R1>>)>> }
    /\ \E mp \in {-1, 1}, ml \in {0, 1} :
           config = defaultConfig(dialect, [MaxParams |-> mp, MaxNameLen |-> ml])

\* statements with casts and other runs of colons
CastTemplates ==
    { <<"x", ":", ":", "a">>,
      <<":", ":", "a">>,
      <<":", ":", ":", "a">>,
      <<"x", ":", ":", ":", ":", "b", " ">> \o PhA,
      PhA \o <<":", ":", "b">>,
      PhA \o <<":", ":", "b">> \o PhB,
      <<":", ":", "a", ":", "b">>,
      PhA \o <<":">>,
      <<"'", "x", "'", ":", ":", "a">> \o PhB }

InitCasts ==
    /\ q \in CastTemplates
    /\ inputs = <<Bag(IntV(1), IntV(7))>>
    /\ config = defaultConfig(dialect, [MaxParams |-> 0, MaxNameLen |-> 0])

\* a call of parse by a builder whose inputs are bound
Init ==
    /\ dialect \in Dialects
    /\ InitLex \/ InitValues \/ InitRows \/ InitLimits \/ InitCasts
    /\ Enter
    /\ ret = NoRet /\ renders = 1 /\ prevRet = NoRet
    /\ bInputs = inputs /\ bag = NoBag /\ bErr = NoErr /\ supplied = NoSupplied
    /\ call = NoCall /\ result = Miss
    /\ IdleOthers

Next ==
    \/ EnterSpecial \/ Placeholder \/ PlainByte
    \/ StepSQ \/ StepDQ \/ StepBT \/ StepBR \/ StepLC \/ StepBC \/ StepDQD
    \/ EmitSliceElem \/ EmitRowCell
    \/ Finish \/ Again

Spec == Init /\ [][Next]_vars

\* a fresh builder of the statement ":a :b"
InitBuilder ==
    /\ dialect \in Dialects
    /\ q = PhA \o PhB
    /\ config = defaultConfig(dialect, [MaxParams |-> 0, MaxNameLen |-> 0])
    /\ inputs = <<>>
    /\ i = 0 /\ state = "sText" /\ dqTag = <<>> /\ n = 0
    /\ buf = <<>> /\ args = <<>> /\ blk = NoBlk
    /\ emitted = <<>> /\ lookups = <<>>
    /\ pc = "bind"
    /\ ret = NoRet /\ renders = 1 /\ prevRet = NoRet
    /\ bInputs = <<>> /\ bag = NoBag /\ bErr = NoErr /\ supplied = NoSupplied
    /\ call = NoCall /\ result = Miss
    /\ IdleOthers

NextBuilder ==
    \/ BindNone \/ BindOne \/ BindPairs \/ Build
    \/ Placeholder \/ PlainByte \/ Finish

SpecBuilder == InitBuilder /\ [][NextBuilder]_vars

\* the resolver functions over every input list of the library
InitProbe ==
    /\ dialect = "Postgres"
    /\ q = <<>>
    /\ config = defaultConfig(dialect, [MaxParams |-> 0, MaxNameLen |-> 0])
    /\ inputs \in { <<Bag(v, IntV(7))>> : v \in ValsA } \cup ValueInputs \cup RowsInputs
    /\ i = 0 /\ state = "sText" /\ dqTag = <<>> /\ n = 0
    /\ buf = <<>> /\ args = <<>> /\ blk = NoBlk
    /\ emitted = <<>> /\ lookups = <<>>
    /\ pc = "probe"
    /\ ret = NoRet /\ renders = 1 /\ prevRet = NoRet
    /\ bInputs = inputs /\ bag = NoBag /\ bErr = NoErr /\ supplied = NoSupplied
    /\ call = NoCall /\ result = Miss
    /\ IdleOthers

NextProbe ==
    \/ CallLookup \/ CallRowsLookup \/ CallFastLookup \/ CallFastRowsLookup
    \/ CallSingleLookup \/ CallGetColValue

SpecProbe == InitProbe /\ [][NextProbe]_vars

(***************************************************************************)
(* Scans: a cursor over a result set and a destination to scan it into.    *)
(***************************************************************************)
\* the longest result set
MaxRows == 2

\* the parser and the builder at rest
IdleParser ==
    /\ dialect = "Postgres"
    /\ q = <<>>
    /\ config = defaultConfig(dialect, [MaxParams |-> 0, MaxNameLen |-> 0])
    /\ inputs = <<>>
    /\ i = 0 /\ state = "sText" /\ dqTag = <<>> /\ n = 0
    /\ buf = <<>> /\ args = <<>> /\ blk = NoBlk
    /\ emitted = <<>> /\ lookups = <<>>
    /\ pc = "idle"
    /\ ret = NoRet /\ renders = 1 /\ prevRet = NoRet
    /\ bInputs = <<>> /\ bag = NoBag /\ bErr = NoErr /\ supplied = NoSupplied
    /\ call = NoCall /\ result = Miss

\* the column lists of the result sets
ColumnLists == { <<nA, nB, nC>>, <<nB, nZ>>, <<nA>> }

\* a result set: the cell of row r and column c is NULL or the value 10*r+c
RowsOf(ncols, nulls) ==
    [r \in 1..Len(nulls) |->
        [c \in 1..ncols |-> IF nulls[r][c] THEN Nil ELSE IntV(10 * r + c)]]
ResultSets(ncols) ==
    { RowsOf(ncols, nulls) :
        nulls \in UNION { [1..len -> [1..ncols -> BOOLEAN]] : len \in 0..MaxRows } }

\* an S filled by an earlier scan; its pointers are the objects 1 and 2
UsedS == StructOf("S", <<IntV(5), Obj(1, IntV(5)), Obj(2, Scanned("Upper", IntV(5)))>>)

\* the destinations of ScanOne: a pointer to a struct or to an int
OneDests ==
    { [mode |-> "one", type |-> t, ptrs |-> FALSE, v |-> Zero(TStruct(t)),
       arr |-> <<>>, len |-> 0, cur |-> Nil, curAddr |-> 0, used |-> 0] :
        t \in {"S", "W", "C"} }
    \cup { [mode |-> "one", type |-> "S", ptrs |-> FALSE, v |-> UsedS,
            arr |-> <<>>, len |-> 0, cur |-> Nil, curAddr |-> 0, used |-> 2],
           [mode |-> "one", type |-> "int", ptrs |-> FALSE, v |-> IntV(0),
            arr |-> <<>>, len |-> 0, cur |-> Nil, curAddr |-> 0, used |-> 0] }

\* the destinations of ScanAll: a pointer to a []T, a []*T or a []int, empty
\* or holding the element of an earlier scan
AllDests ==
    { [mode |-> "all", type |-> t, ptrs |-> p, v |-> Nil,
       arr |-> <<>>, len |-> 0, cur |-> Nil, curAddr |-> 0, used |-> 0] :
        t \in {"S", "W", "C"}, p \in BOOLEAN }
    \cup { [mode |-> "all", type |-> "int", ptrs |-> FALSE, v |-> Nil,
            arr |-> es, len |-> Len(es), cur |-> Nil, curAddr |-> 0, used |-> 0] :
            es \in {<<>>, <<IntV(5)>>} }
    \cup { [mode |-> "all", type |-> "S", ptrs |-> FALSE, v |-> Nil,
            arr |-> <<UsedS>>, len |-> 1, cur |-> Nil, curAddr |-> 0, used |-> 2],
           [mode |-> "all", type |-> "S", ptrs |-> TRUE, v |-> Nil,
            arr |-> <<Obj(3, UsedS)>>, len |-> 1, cur |-> Nil, curAddr |-> 0, used |-> 3] }

\* a builder about to run ScanOneContext or ScanAllContext
InitScan ==
    /\ IdleParser
    /\ dest \in OneDests \cup AllDests
    /\ \E cols \in ColumnLists :
         \E rs \in ResultSets(Len(cols)), f \in BOOLEAN :
            cursor = [opened |-> FALSE, closed |-> FALSE, cols |-> cols,
                      rows |-> rs, fails |-> f, pos |-> 0]
    /\ scanSt = Nil /\ heap = dest.used
    /\ mpc = "start" /\ mret = NoErr
    /\ IdleHandles /\ IdleCache /\ IdlePlans

NextScan ==
    \/ Query \/ OneFirst \/ OnePrepare \/ OneScan \/ OneSecond
    \/ AllBegin \/ AllNext \/ AllScan

SpecScan == InitScan /\ [][NextScan]_vars


(***************************************************************************)
(* Callers of one SQLR.                                                    *)
(***************************************************************************)
IdleGoroutine == [pc |-> "idle", o |-> 0, h |-> 0, ret |-> NoOp]

\* one caller that keeps its handles after Build and Release
InitHandles ==
    /\ IdleParser /\ IdleMapper /\ IdleCache /\ IdlePlans
    /\ objs = <<>> /\ pool = {} /\ hnd = <<>> /\ lastOp = NoLast
    /\ policy = [keeps |-> TRUE, goroutines |-> {1}]
    /\ gr = [g \in policy.goroutines |-> IdleGoroutine]

\* goroutines that each use only the handle they obtained, until it is released
InitShared ==
    /\ IdleParser /\ IdleMapper /\ IdleCache /\ IdlePlans
    /\ objs = <<>> /\ pool = {} /\ hnd = <<>> /\ lastOp = NoLast
    /\ policy = [keeps |-> FALSE, goroutines |-> {1, 2}]
    /\ gr = [g \in policy.goroutines |-> IdleGoroutine]

NextHandles ==
    \/ \E g \in policy.goroutines : PoolGet(g)
    \/ \E g \in policy.goroutines : SQLRWrite(g)
    \/ \E g \in policy.goroutines : BuildRelease(g)
    \/ \E g \in policy.goroutines, h \in 1..Len(hnd) : BuilderWrite(g, h)
    \/ \E g \in policy.goroutines, h \in 1..Len(hnd) : BuilderBind(g, h)
    \/ \E g \in policy.goroutines, h \in 1..Len(hnd) : BuilderPreview(g, h)
    \/ \E g \in policy.goroutines, h \in 1..Len(hnd) : BuildSnapshot(g, h)
    \/ \E g \in policy.goroutines, h \in 1..Len(hnd) : BuilderRelease(g, h)

SpecHandles == InitHandles /\ [][NextHandles]_vars
SpecShared == InitShared /\ [][NextHandles]_vars

(***************************************************************************)
(* Callers of one cache.                                                   *)
(***************************************************************************)
InitCache ==
    /\ IdleParser /\ IdleMapper /\ IdleHandles /\ IdlePlans
    /\ curr = EmptyGen /\ prev = EmptyGen /\ mu = [readers |-> {}, writer |-> 0]
    /\ cg = [g \in CacheGoroutines |-> IdleCaller]
    /\ age = NoAge

NextCache ==
    \/ \E g \in CacheGoroutines : GetRLock(g)
    \/ \E g \in CacheGoroutines : GetLookup(g)
    \/ \E g \in CacheGoroutines : GetLock(g)
    \/ \E g \in CacheGoroutines : PutLock(g)
    \/ \E g \in CacheGoroutines : Store(g)

SpecCache == InitCache /\ [][NextCache]_vars

(***************************************************************************)
(* A record bound to a statement and read back: every column of the record *)
(* is a named placeholder, the row of the result set holds the arguments   *)
(* as the driver stores them, and the row is scanned into a new record of  *)
(* the same type.                                                          *)
(***************************************************************************)
\* the columns of a record type, in declaration order
RecordColumns(t) ==
    CASE t = "S" -> <<nA, nB, nC>>
      [] t = "W" -> <<nA, nB, nC, nZ>>
      [] t = "V" -> <<nA, nB, nC>>

\* the arguments of :c1, :c2, ... with the record as the only input
BoundArgs(rec, cols) ==
    [c \in 1..Len(cols) |-> parseEmitValue(lookup(<<rec>>, cols[c]).v).arg]

\* database/sql on an argument: a nil pointer is NULL, a pointer is followed,
\* a driver.Valuer gives its Value()
RECURSIVE driverValue(_)
driverValue(a) ==
    CASE a.kind = "nilptr" -> Nil
      [] a.kind = "ptr" -> driverValue(a.to)
      [] a.kind = "scanned" -> a.from
      [] OTHER -> a

\* the records bound: S with its optional and its custom leaf set or nil,
\* W with its sub-record present or nil, V with a nested sub-record
RecordsS ==
    { StructOf("S", <<IntV(a), b, c>>) :
        a \in {0, 7}, b \in {NilPtr, Ptr(IntV(8))},
        c \in {NilPtr, Ptr(Scanned("Upper", IntV(9)))} }
RecordsW ==
    { StructOf("W", <<x, Scanned("NullX", d)>>) :
        x \in {NilPtr} \cup { Ptr(s) : s \in RecordsS }, d \in {Nil, IntV(3)} }
RecordsV ==
    { StructOf("V", <<StructOf("R", <<IntV(a), IntV(4)>>), IntV(c)>>) :
        a \in {0, 7}, c \in {0, 5} }
Records == RecordsS \cup RecordsW \cup RecordsV

\* a new destination for records of type t: *T, *[]T or *[]*T
FreshDests(t) ==
    { [mode |-> "one", type |-> t, ptrs |-> FALSE, v |-> Zero(TStruct(t)),
       arr |-> <<>>, len |-> 0, cur |-> Nil, curAddr |-> 0, used |-> 0] }
    \cup { [mode |-> "all", type |-> t, ptrs |-> p, v |-> Nil,
            arr |-> <<>>, len |-> 0, cur |-> Nil, curAddr |-> 0, used |-> 0] :
            p \in BOOLEAN }

\* the result set of a statement whose arguments are the record's columns
InitRound ==
    /\ IdleParser
    /\ \E rec \in Records :
         /\ dest \in FreshDests(rec.type)
         /\ cursor = [opened |-> FALSE, closed |-> FALSE,
                      cols |-> RecordColumns(rec.type),
                      rows |-> << [c \in 1..Len(RecordColumns(rec.type)) |->
                                     driverValue(BoundArgs(rec, RecordColumns(rec.type))[c])] >>,
                      fails |-> FALSE, pos |-> 0, bound |-> rec]
    /\ scanSt = Nil /\ heap = 0
    /\ mpc = "start" /\ mret = NoErr
    /\ IdleHandles /\ IdleCache /\ IdlePlans

SpecRound == InitRound /\ [][NextScan]_vars

(***************************************************************************)
(* Two statements rendered in full: an IN list and a VALUES row-block.     *)
(***************************************************************************)
\* SELECT * FROM t WHERE id IN (:ids) AND s=:s
SelectIn ==
    << "S", "E", "L", "E", "C", "T", " ", "*", " ", "F", "R", "O",
       "M", " ", "t", " ", "W", "H", "E", "R", "E", " ", "i", "d",
       " ", "I", "N", " ", "(", ":", "i", "d", "s", ")", " ", "A",
       "N", "D", " ", "s", "=", ":", "s" >>
\* INSERT INTO u(id,name) VALUES :rows{id,name}
InsertRows ==
    << "I", "N", "S", "E", "R", "T", " ", "I", "N", "T", "O", " ",
       "u", "(", "i", "d", ",", "n", "a", "m", "e", ")", " ", "V",
       "A", "L", "U", "E", "S", " ", ":", "r", "o", "w", "s", "{",
       "i", "d", ",", "n", "a", "m", "e", "}" >>

\* Bind("ids", []int{10, 11, 12}).Bind("s", "active")
SelectInBag ==
    P((nIds :> SliceOf("int", <<IntV(10), IntV(11), IntV(12)>>)) @@ (nS :> Str("active")))
\* Bind("rows", []U{{1, "A"}, {2, "B"}})
InsertRowsBag ==
    P(nRows :> SliceOf("struct", << StructOf("U", <<IntV(1), Str("A")>>),
                                    StructOf("U", <<IntV(2), Str("B")>>) >>))

InitScenario ==
    /\ dialect \in Dialects
    /\ \/ q = SelectIn /\ inputs = <<SelectInBag>>
       \/ q = InsertRows /\ inputs = <<InsertRowsBag>>
    /\ config = defaultConfig(dialect, [MaxParams |-> 0, MaxNameLen |-> 0])
    /\ Enter
    /\ ret = NoRet /\ renders = 1 /\ prevRet = NoRet
    /\ bInputs = inputs /\ bag = NoBag /\ bErr = NoErr /\ supplied = NoSupplied
    /\ call = NoCall /\ result = Miss
    /\ IdleOthers

NextScenario ==
    \/ Placeholder \/ PlainByte \/ EmitSliceElem \/ EmitRowCell \/ Finish

SpecScenario == InitScenario /\ [][NextScenario]_vars


(***************************************************************************)
(* Dollar-quoted regions: every statement of at most MaxDollar pieces out  *)
(* of tags, lone dollars, a placeholder and text.                          *)
(***************************************************************************)
MaxDollar == 4
DollarSegs ==
    { <<"$", "t", "$">>, <<"$", "$">>, <<"$">>, PhA, <<"t">>, <<" ">> }

InitDollar ==
    /\ dialect \in Dialects
    /\ q \in Templates(DollarSegs, MaxDollar)
    /\ inputs = <<Bag(IntV(1), IntV(7))>>
    /\ config = defaultConfig(dialect, [MaxParams |-> 0, MaxNameLen |-> 0])
    /\ Enter
    /\ ret = NoRet /\ renders = 1 /\ prevRet = NoRet
    /\ bInputs = inputs /\ bag = NoBag /\ bErr = NoErr /\ supplied = NoSupplied
    /\ call = NoCall /\ result = Miss
    /\ IdleOthers

NextDollar ==
    \/ EnterSpecial \/ Placeholder \/ PlainByte \/ StepDQD \/ Finish

SpecDollar == InitDollar /\ [][NextDollar]_vars

(***************************************************************************)
(* Scan plans: buildScanPlan for every destination type and every list of  *)
(* at most MaxPlanCols columns.                                            *)
(***************************************************************************)
MaxPlanCols == 3
BuildTypes == {"S", "W", "C", "N", "R", "F"}
BuildNames == {nA, nB, nC, nZ}
BuildColumnLists == UNION { [1..k -> BuildNames] : k \in 0..MaxPlanCols }

InitBuild == IdleParser /\ IdleOthers

CallBuildScanPlan ==
    /\ call = NoCall
    /\ \E t \in BuildTypes, cols \in BuildColumnLists :
        /\ call' = [fn |-> "buildScanPlan", cols |-> cols, type |-> t]
        /\ result' = buildScanPlan(cols, t)
    /\ UNCHANGED <<others, builder, parseArgs, parseLocals, parseHist>>

SpecBuild == InitBuild /\ [][CallBuildScanPlan]_vars

(***************************************************************************)
(* fieldIndexMap step by step: the calls of walk in progress are the       *)
(* frames of call.stack, the map built so far is result.                   *)
(***************************************************************************)
WalkTypes == DOMAIN TypeDefs
Frame(t, path) == [rt |-> t, path |-> path, i |-> 0, entered |-> FALSE]
Walking == call.fn = "fieldIndexMap" /\ call.stack # <<>>
Top == call.stack[Len(call.stack)]
Pop == SubSeq(call.stack, 1, Len(call.stack) - 1)

\* fieldIndexMap(t) of a struct type: walk(base, nil) is called
StartWalk ==
    /\ call = NoCall
    /\ \E t \in WalkTypes :
        call' = [fn |-> "fieldIndexMap", type |-> t,
                 stack |-> <<Frame(t, <<>>)>>, visited |-> {}]
    /\ result' = EmptyMap
    /\ UNCHANGED <<others, builder, parseArgs, parseLocals, parseHist>>

\* a bug: a type being expanded is entered again
WalkEnter_NoGuard ==
    /\ Walking /\ ~Top.entered
    /\ call' = [call EXCEPT !.visited = @ \cup {Top.rt},
                            !.stack[Len(call.stack)].entered = TRUE]
    /\ UNCHANGED <<result, others, builder, parseArgs, parseLocals, parseHist>>

\* the head of walk: if visited[rt] { return }; visited[rt] = true
WalkEnter ==
    /\ Walking /\ ~Top.entered
    /\ IF Top.rt \in call.visited
       THEN call' = [call EXCEPT !.stack = Pop]
       ELSE call' = [call EXCEPT !.visited = @ \cup {Top.rt},
                                 !.stack[Len(call.stack)].entered = TRUE]
    /\ UNCHANGED <<result, others, builder, parseArgs, parseLocals, parseHist>>

\* one turn of the loop over the fields of rt
WalkField ==
    /\ Walking /\ Top.entered /\ Top.i < Len(TypeDefs[Top.rt])
    /\ LET f == TypeDefs[Top.rt][Top.i + 1]
           next == [call EXCEPT !.stack[Len(call.stack)].i = Top.i + 1]
       IN IF ~f.exported \/ (f.tag # <<>> /\ f.tag = <<nDash>>) THEN
              call' = next /\ result' = result
          ELSE IF shouldFlatten(f.ft) THEN
              /\ call' = [next EXCEPT !.stack =
                             Append(@, Frame(StripPtr(f.ft).name, Append(Top.path, Top.i)))]
              /\ result' = result
          ELSE
              /\ call' = next
              /\ result' = WalkLeaf(result, TagName(f), Top.path, Top.i, TagScalar(f))
    /\ UNCHANGED <<others, builder, parseArgs, parseLocals, parseHist>>

\* the loop is over: defer delete(visited, rt), return
WalkReturn ==
    /\ Walking /\ Top.entered /\ Top.i >= Len(TypeDefs[Top.rt])
    /\ call' = [call EXCEPT !.stack = Pop, !.visited = @ \ {Top.rt}]
    /\ UNCHANGED <<result, others, builder, parseArgs, parseLocals, parseHist>>

InitWalk == IdleParser /\ IdleOthers

NextWalk == StartWalk \/ WalkEnter \/ WalkField \/ WalkReturn

SpecWalk == InitWalk /\ [][NextWalk]_vars /\ WF_vars(NextWalk)

(***************************************************************************)
(* One caller whose Bind calls may fail, each builder used until its       *)
(* Build or Release.                                                       *)
(***************************************************************************)
InitSticky ==
    /\ IdleParser /\ IdleMapper /\ IdleCache /\ IdlePlans
    /\ objs = <<>> /\ pool = {} /\ hnd = <<>> /\ lastOp = NoLast
    /\ policy = [keeps |-> FALSE, goroutines |-> {1}]
    /\ gr = [g \in policy.goroutines |-> IdleGoroutine]

NextSticky ==
    \/ NextHandles
    \/ \E g \in policy.goroutines, h \in 1..Len(hnd) : BuilderBindKey(g, h)

SpecSticky == InitSticky /\ [][NextSticky]_vars

(***************************************************************************)
(* Exec, ScanOne and ScanAll: one caller runs its builders against a       *)
(* database whose calls are recorded in cursor.calls.                      *)
(***************************************************************************)
RunMethods == {"Exec", "ScanOne", "ScanAll"}
ErrExec == [kind |-> "db.ExecContext"]
\* the destination fits the method and no scan has run yet
MayRun(method) ==
    \/ method = "Exec"
    \/ method = "ScanOne" /\ dest.mode = "one" /\ mpc = "start"
    \/ method = "ScanAll" /\ dest.mode = "all" /\ mpc = "start"

\* q, args, err := b.Build(), up to the return statement of Build
RunBuild(g, h) ==
    /\ Usable(g, h)
    /\ \E method \in RunMethods :
        /\ MayRun(method)
        /\ IF objs[hnd[h].obj].released
           THEN /\ lastOp' = Returned(h, method, ErrBuilderReleased, NoOut)
                /\ hnd' = [hnd EXCEPT ![h].ops = @ + 1]
                /\ gr' = gr
           ELSE /\ \E r \in {Rendered(objs[hnd[h].obj])} :
                    gr' = [gr EXCEPT ![g] = [pc |-> "running", o |-> hnd[h].obj, h |-> h,
                                             ret |-> Returned(h, method, r.err, r.out)]]
                /\ UNCHANGED <<hnd, lastOp>>
    /\ UNCHANGED <<objs, pool, policy, notHandles>>

\* a bug: the builder is not released when Build fails
RunRelease_OnSuccess(g) ==
    /\ gr[g].pc = "running"
    /\ IF gr[g].ret.err # NoErr THEN UNCHANGED <<objs, pool>> ELSE ReleaseObject(gr[g].o)
    /\ hnd' = [hnd EXCEPT ![gr[g].h].finished = TRUE, ![gr[g].h].ops = @ + 1]
    /\ IF gr[g].ret.err # NoErr
       THEN /\ lastOp' = gr[g].ret
            /\ gr' = [gr EXCEPT ![g] = IdleGoroutine]
       ELSE /\ lastOp' = lastOp
            /\ gr' = [gr EXCEPT ![g].pc = "execute"]
    /\ UNCHANGED <<policy, notHandles>>

\* the deferred b.Release() of Build; if err != nil { return err }
RunRelease(g) ==
    /\ gr[g].pc = "running"
    /\ ReleaseObject(gr[g].o)
    /\ hnd' = [hnd EXCEPT ![gr[g].h].finished = TRUE, ![gr[g].h].ops = @ + 1]
    /\ IF gr[g].ret.err # NoErr
       THEN /\ lastOp' = gr[g].ret
            /\ gr' = [gr EXCEPT ![g] = IdleGoroutine]
       ELSE /\ lastOp' = lastOp
            /\ gr' = [gr EXCEPT ![g].pc = "execute"]
    /\ UNCHANGED <<policy, notHandles>>

\* db.ExecContext(ctx, q, args...) and its return; db.QueryContext(ctx, q,
\* args...), its error returned or its rows handed to scanOne / scanAll
RunExecute(g) ==
    /\ gr[g].pc = "execute"
    /\ \E ok \in BOOLEAN :
        LET method == gr[g].ret.op
            called == [cursor EXCEPT !.calls =
                          Append(@, [h |-> gr[g].h, op |-> method, out |-> gr[g].ret.out])]
        IN IF method = "Exec" \/ ~ok THEN
               /\ cursor' = called
               /\ lastOp' = [gr[g].ret EXCEPT !.err =
                                IF ok THEN NoErr
                                ELSE IF method = "Exec" THEN ErrExec ELSE ErrQuery]
               /\ gr' = [gr EXCEPT ![g] = IdleGoroutine]
               /\ mpc' = mpc
           ELSE
               /\ cursor' = [called EXCEPT !.opened = TRUE]
               /\ mpc' = IF dest.mode = "one" THEN "first" ELSE "begin"
               /\ gr' = [gr EXCEPT ![g].pc = "scanning"]
               /\ lastOp' = lastOp
    /\ UNCHANGED <<objs, pool, hnd, policy, dest, scanSt, heap, mret,
                   parser, caches, plans>>

\* scanOne / scanAll has returned: the method returns its error
RunReturn(g) ==
    /\ gr[g].pc = "scanning" /\ mpc = "done"
    /\ lastOp' = [gr[g].ret EXCEPT !.err = mret]
    /\ gr' = [gr EXCEPT ![g] = IdleGoroutine]
    /\ UNCHANGED <<objs, pool, hnd, policy, notHandles>>

RunDests == { d \in OneDests \cup AllDests : d.type = "int" /\ d.len = 0 }
RunResults == { rs \in ResultSets(1) : \A r \in 1..Len(rs) : (rs[r][1] = Nil) <=> (r = 2) }

InitRun ==
    /\ IdleParser /\ IdleCache /\ IdlePlans
    /\ dest \in RunDests
    /\ \E rs \in RunResults, f \in BOOLEAN :
         cursor = [opened |-> FALSE, closed |-> FALSE, cols |-> <<nA>>,
                   rows |-> rs, fails |-> f, pos |-> 0, calls |-> <<>>]
    /\ scanSt = Nil /\ heap = dest.used
    /\ mpc = "start" /\ mret = NoErr
    /\ objs = <<>> /\ pool = {} /\ hnd = <<>> /\ lastOp = NoLast
    /\ policy = [keeps |-> FALSE, goroutines |-> {1}]
    /\ gr = [g \in policy.goroutines |-> IdleGoroutine]

NextRun ==
    \/ \E g \in policy.goroutines : PoolGet(g)
    \/ \E g \in policy.goroutines : SQLRWrite(g)
    \/ \E g \in policy.goroutines, h \in 1..Len(hnd) : BuilderBind(g, h)
    \/ \E g \in policy.goroutines, h \in 1..Len(hnd) : RunBuild(g, h)
    \/ \E g \in policy.goroutines : RunRelease(g)
    \/ \E g \in policy.goroutines : RunExecute(g)
    \/ \E g \in policy.goroutines : RunReturn(g)
    \/ OneFirst \/ OnePrepare \/ OneScan \/ OneSecond
    \/ AllBegin \/ AllNext \/ AllScan

SpecRun == InitRun /\ [][NextRun]_vars
(***************************************************************************)
(* Column lists: one row-block :rows{...} whose list is any text of at     *)
(* most MaxBody bytes, over two records of type R.                         *)
(***************************************************************************)
MaxBody == 4
ColChars == {"a", "b", ",", " ", "}"}
ColBodies == UNION { [1..k -> ColChars] : k \in 0..MaxBody }
RowsOpen == <<":">> \o nRows \o <<"{">>

InitCols ==
    /\ dialect \in Dialects
    /\ q \in { RowsOpen \o body : body \in ColBodies }
    /\ inputs = <<RowsBag(<<R1, R2>>)>>
    /\ config = defaultConfig(dialect, [MaxParams |-> 0, MaxNameLen |-> 0])
    /\ Enter
    /\ ret = NoRet /\ renders = 1 /\ prevRet = NoRet
    /\ bInputs = inputs /\ bag = NoBag /\ bErr = NoErr /\ supplied = NoSupplied
    /\ call = NoCall /\ result = Miss
    /\ IdleOthers

NextCols ==
    \/ Placeholder \/ PlainByte \/ EmitRowCell \/ Finish

SpecCols == InitCols /\ [][NextCols]_vars

(***************************************************************************)
(* Two goroutines scanning one row each with the same columns.             *)
(***************************************************************************)
\* the row of goroutine g: column c holds NULL or 10*g+c; column a, a plain
\* int, is NULL for the second goroutine only
PlanRows(g) ==
    { [c \in 1..Len(PlanCols) |-> IF nulls[c] THEN Nil ELSE IntV(10 * g + c)] :
        nulls \in { f \in [1..Len(PlanCols) -> BOOLEAN] : f[1] => g = 2 } }

InitPlans ==
    /\ IdleParser /\ IdleMapper /\ IdleHandles /\ IdleCache
    /\ mem = [cache |-> 0, plans |-> <<>>, states |-> <<>>]
    /\ sc \in { [g \in ScanGoroutines |->
                    [pc |-> "start", plan |-> 0, st |-> 0, d |-> Zero(TStruct(PlanType)),
                     h |-> 0, row |-> rs[g], err |-> NoErr]] :
                 rs \in { f \in [ScanGoroutines -> UNION { PlanRows(g) : g \in ScanGoroutines }] :
                            \A g \in ScanGoroutines : f[g] \in PlanRows(g) } }

NextPlans ==
    \/ \E g \in ScanGoroutines : GetScanPlan(g)
    \/ \E g \in ScanGoroutines : BuildPlan(g)
    \/ \E g \in ScanGoroutines : PutPlan(g)
    \/ \E g \in ScanGoroutines : NewState(g)
    \/ \E g \in ScanGoroutines : PrepareTargets(g)
    \/ \E g \in ScanGoroutines : RowsScan(g)
    \/ \E g \in ScanGoroutines : PostAssign(g)

SpecPlans == InitPlans /\ [][NextPlans]_vars

(***************************************************************************)
(* Properties.                                                             *)
(***************************************************************************)
Range(s) == { s[j] : j \in 1..Len(s) }
IsPrefix(p, s) == Len(p) <= Len(s) /\ SubSeq(s, 1, Len(p)) = p
Done == pc = "done"
Succeeded == Done /\ ret.err = NoErr

\* the decimal digits of k < 100
Decimal(k) ==
    IF k < 10 THEN <<DigitChars[k + 1]>>
    ELSE <<DigitChars[(k \div 10) + 1], DigitChars[(k % 10) + 1]>>
\* the token of ordinal k as the dialects write it
TokenText(d, k) ==
    CASE d = "Postgres" -> <<"$">> \o Decimal(k)
      [] d = "SQLServer" -> <<"@", "p">> \o Decimal(k)
      [] OTHER -> <<"?">>

\* a template without any quote, comment, dollar or brace character: every
\* :name in it is a scalar placeholder in Plain state
OpenerChars == {"'", "\"", Backtick, "[", "-", "#", "/", "$", "{"}
OnlyScalarText(s) == \A p \in 1..Len(s) : s[p] \notin OpenerChars

\* the names of the placeholders of such a template, left to right
RECURSIVE PhNamesFrom(_, _)
PhNamesFrom(s, p) ==
    IF p >= Len(s) THEN <<>>
    ELSE IF IsPlaceholderAt(s, p)
         THEN <<Sub(s, p + 1, NameEnd(s, p + 2))>> \o PhNamesFrom(s, NameEnd(s, p + 2))
    ELSE PhNamesFrom(s, p + 1)
PhNames(s) == PhNamesFrom(s, 0)

\* such a template with its k-th placeholder replaced by the k-th token
RECURSIVE RenderScalarsFrom(_, _, _, _)
RenderScalarsFrom(s, d, p, k) ==
    IF p >= Len(s) THEN <<>>
    ELSE IF IsPlaceholderAt(s, p)
         THEN TokenText(d, k + 1) \o RenderScalarsFrom(s, d, NameEnd(s, p + 2), k + 1)
    ELSE <<At(s, p)>> \o RenderScalarsFrom(s, d, p + 1, k)
RenderScalars(s, d) == RenderScalarsFrom(s, d, 0, 0)

\* a non-collection, non-blob value
SimpleValue(v) == v.kind \in {"int", "nil", "nilptr"}
BoundSimply(name) == lookup(inputs, name).ok /\ SimpleValue(lookup(inputs, name).v)
\* the values bound to the names, in order
BoundValues(names) == [j \in 1..Len(names) |-> lookup(inputs, names[j]).v]

NamesFit(names) == \A nm \in Range(names) : Len(nm) <= config.MaxNameLen
Within(total) == config.MaxParams <= 0 \/ total <= config.MaxParams

C1_Case ==
    /\ OnlyScalarText(q)
    /\ \A nm \in Range(PhNames(q)) : BoundSimply(nm)
C1_Result ==
    /\ ret.err = NoErr
    /\ ret.text = RenderScalars(q, dialect)
    /\ Len(emitted) = Len(PhNames(q))
    /\ ret.args = BoundValues(PhNames(q))

\* C1 as stated: a template of N scalar placeholders in Plain state, each
\* bound to a non-collection, non-blob value, always renders: the text holds
\* exactly N tokens and the arguments are the N bound values in left-to-right
\* order, one per occurrence.
C1_AlwaysRenders == (Done /\ C1_Case) => C1_Result

\* C1, amended: the same, provided N does not exceed a positive MaxParams and
\* no name is longer than MaxNameLen.
C1_RendersWithinLimits ==
    (Done /\ C1_Case /\ Within(Len(PhNames(q))) /\ NamesFit(PhNames(q))) => C1_Result

\* a render of four placeholders over two names bound to different values
C1_Witness ==
    /\ Succeeded /\ C1_Case
    /\ Len(PhNames(q)) = 4
    /\ ret.args[1] # ret.args[2] /\ ret.args[1] = ret.args[3]
    /\ ret.args[2] = ret.args[4]

(***************************************************************************)
(* C2: tokens and arguments of one scalar placeholder.                     *)
(***************************************************************************)
\* the value expands into one token per element.  As the claim has it
\* (bytesToo), every slice or array does that is not a Scalar(), a Valuer or
\* a byte slice; in the code an array of bytes does not
Expands(v, bytesToo) ==
    /\ v.kind \in {"slice", "array"}
    /\ ~IsValuer(v)
    /\ ~(v.kind = "slice" /\ v.elem = "uint8")
    /\ bytesToo \/ v.elem # "uint8"

\* the arguments one occurrence bound to v contributes
ArgsOf(v, bytesToo) ==
    IF Expands(v, bytesToo) THEN v.elems
    ELSE IF v.kind = "scalar" THEN <<v.inner>>
    ELSE IF v.kind = "slice" /\ v.elem = "uint8" /\ ~IsValuer(v)
         THEN <<SliceOf("uint8", v.elems)>>
    ELSE <<v>>
RECURSIVE ArgsOfAll(_, _)
ArgsOfAll(vs, bytesToo) ==
    IF vs = <<>> THEN <<>>
    ELSE ArgsOf(Head(vs), bytesToo) \o ArgsOfAll(Tail(vs), bytesToo)

C2_Case ==
    /\ OnlyScalarText(q)
    /\ \A nm \in Range(PhNames(q)) :
           lookup(inputs, nm).ok /\ lookup(inputs, nm).v.kind # "ambiguous"
C2_Result(bytesToo) ==
    LET vs == BoundValues(PhNames(q)) IN
    IF \E j \in 1..Len(vs) : Expands(vs[j], bytesToo) /\ vs[j].elems = <<>>
    THEN ret.err.kind = "ErrSliceEmpty"
    ELSE /\ ret.err = NoErr
         /\ ret.args = ArgsOfAll(vs, bytesToo)
         /\ Len(emitted) = Len(ArgsOfAll(vs, bytesToo))

\* C2 as stated: an occurrence emits one token for a Scalar() wrapper, a
\* `,scalar` field, a driver.Valuer or a byte slice, K tokens in element order
\* for any other slice or array of length K > 0, ErrSliceEmpty for length 0,
\* and one token otherwise (read with the limits of the configuration
\* respected).
C2_TokensByValue ==
    (Done /\ C2_Case /\ NamesFit(PhNames(q))
          /\ Within(Len(ArgsOfAll(BoundValues(PhNames(q)), TRUE))))
        => C2_Result(TRUE)

\* C2, amended: an array of bytes is bound as one token as well (never
\* expanded, never ErrSliceEmpty), and the counts hold when the total stays
\* within MaxParams and the names within MaxNameLen.
C2_TokensByValueBytesOnce ==
    (Done /\ C2_Case /\ NamesFit(PhNames(q))
          /\ Within(Len(ArgsOfAll(BoundValues(PhNames(q)), FALSE))))
        => C2_Result(FALSE)

\* a slice of MaxElems elements expanded next to a single value
C2_Witness ==
    /\ Succeeded /\ C2_Case /\ q = PhA \o PhB
    /\ Expands(lookup(inputs, nA).v, FALSE)
    /\ Len(ret.args) = MaxElems + 1

(***************************************************************************)
(* C3: row-blocks.                                                         *)
(***************************************************************************)
\* the columns the record types of the rows expose unambiguously, with the
\* path of fields (1-based) to each
ColumnsOf ==
    [R |-> (nA :> <<1>>) @@ (nB :> <<2>>),
     A |-> (nA :> <<1>>),
     B |-> (nA :> <<1>>) @@ (nB :> <<2>>),
     C |-> (nB :> <<2, 2>>)]

Provides(row, col) ==
    LET rv == deIndirect(row) IN
    \/ rv.kind = "map" /\ rv.keyk \in {"string", "defstring", "any"} /\ col \in DOMAIN rv.m
    \/ rv.kind = "struct" /\ rv.type \in DOMAIN ColumnsOf /\ col \in DOMAIN ColumnsOf[rv.type]

RECURSIVE FieldAt(_, _)
FieldAt(v, path) == IF path = <<>> THEN v ELSE FieldAt(v.f[Head(path)], Tail(path))
ColOf(row, col) ==
    LET rv == deIndirect(row) IN
    IF rv.kind = "map" THEN rv.m[col] ELSE FieldAt(rv, ColumnsOf[rv.type][col])

\* the values of the columns cols over the rows, row by row
RowMajor(rows, cols) ==
    [x \in 1..(Len(rows) * Len(cols)) |->
        ColOf(rows[((x - 1) \div Len(cols)) + 1], cols[((x - 1) % Len(cols)) + 1])]

BlockCols(seg) == IF seg = PhRowsAB THEN <<nA, nB>> ELSE <<nB>>
BoundRows == rowsLookup(inputs, nRows)
SegFits(seg) ==
    IF seg = PhA THEN BoundSimply(nA)
    ELSE /\ BoundRows.ok /\ Len(BoundRows.rows) >= 1
         /\ \A r \in 1..Len(BoundRows.rows), c \in 1..Len(BlockCols(seg)) :
                Provides(BoundRows.rows[r], BlockCols(seg)[c])
SegArgs(seg) ==
    IF seg = PhA THEN <<lookup(inputs, nA).v>>
    ELSE RowMajor(BoundRows.rows, BlockCols(seg))
RECURSIVE SegsArgs(_)
SegsArgs(t) == IF t = <<>> THEN <<>> ELSE SegArgs(Head(t)) \o SegsArgs(Tail(t))

\* the ways to read q as a sequence of value and row-block segments
RowsReadings ==
    UNION { { t \in [1..k -> RowsSegs] : Flatten(t) = q } : k \in 1..MaxPh }
C3_Case(t) ==
    /\ \E j \in 1..Len(t) : t[j] # PhA
    /\ \A j \in 1..Len(t) : SegFits(t[j])
C3_Result(t) ==
    /\ ret.err = NoErr
    /\ ret.args = SegsArgs(t)
    /\ Len(emitted) = Len(SegsArgs(t))

\* C3 as stated: a row-block over R >= 1 rows that all provide its C columns
\* always emits R*C tokens and R*C arguments, row-major, columns in the order
\* written.
C3_RowMajor ==
    Done => \A t \in RowsReadings : C3_Case(t) => C3_Result(t)

\* C3, amended: the same, provided the tokens of the statement stay within a
\* positive MaxParams.
C3_RowMajorWithinLimit ==
    Done => \A t \in RowsReadings :
                (C3_Case(t) /\ Within(Len(SegsArgs(t)))) => C3_Result(t)

\* three rows of different kinds (record, mapping, pointer to record) under
\* two columns, after a single value
C3_Witness ==
    /\ Succeeded /\ q = PhA \o PhRowsAB
    /\ Len(BoundRows.rows) = 3
    /\ C3_Case(<<PhA, PhRowsAB>>)
    /\ Len(ret.args) = 7

(***************************************************************************)
(* C4: ordinals.                                                           *)
(***************************************************************************)
\* C4: in every state of a render the ordinal counter equals the number of
\* tokens written and the length of the argument list; the j-th token of a
\* render carries ordinal j in the dialect's form; numbering restarts at 1 in
\* every render.
C4_Ordinals ==
    /\ n = Len(emitted)
    /\ n = Len(args)
    /\ \A j \in 1..Len(emitted) :
        /\ emitted[j].ord = j
        /\ emitted[j].pos + Len(TokenText(dialect, j)) <= Len(buf)
        /\ Sub(buf, emitted[j].pos, emitted[j].pos + Len(TokenText(dialect, j)))
               = TokenText(dialect, j)

\* a second render, after one that emitted several tokens, at its second token
C4_Witness ==
    /\ renders = 2 /\ Len(prevRet.args) >= 2
    /\ Len(emitted) = 2 /\ emitted[1].ord = 1
    /\ dialect = "SQLServer"

(***************************************************************************)
(* C5: literals, comments and dollar-quoted regions.                       *)
(***************************************************************************)
\* the complete literals, comments and regions of a dialect, each holding the
\* token :z.  With escapedIdent, a quoted identifier whose closer is
\* backslash-escaped counts as one that goes on
Shielded(d, escapedIdent) ==
    { SQLit, SQEscLit, SQDblLit, DQLit, DQEscLit, DashComment, BlockComment,
      DollarLit, TagLit }
    \cup (IF d \in {"MySQL", "SQLite"}
          THEN {BTLit, BTDblLit} \cup (IF escapedIdent THEN {BTEscLit} ELSE {})
          ELSE {})
    \cup (IF d = "SQLServer"
          THEN {BRLit, BRDblLit} \cup (IF escapedIdent THEN {BREscLit} ELSE {})
          ELSE {})
    \cup (IF d = "MySQL" THEN {HashComment} ELSE {})

\* q starts with plain text pre and the region L: nothing of q[from, to) is
\* looked up or bound, and it is copied as it is
Untouched(pre, L) ==
    LET from == Len(pre)
        to == Len(pre) + Len(L)
    IN /\ \A j \in 1..Len(lookups) : lookups[j].at < from \/ lookups[j].at >= to
       /\ \A j \in 1..Len(emitted) : emitted[j].pos < from \/ emitted[j].pos >= to
       /\ i >= to => IsPrefix(pre \o L, buf)
       /\ Succeeded => IsPrefix(pre \o L, ret.text)
       /\ (Done /\ q = pre \o L) => (ret.err = NoErr /\ ret.text = q /\ ret.args = <<>>)

C5_Immune(escapedIdent) ==
    \A pre \in LexPre, L \in Shielded(dialect, escapedIdent) :
        IsPrefix(pre \o L, q) => Untouched(pre, L)

\* C5 as stated: a :name inside a single-, double-, backtick- or
\* bracket-quoted literal, a comment or a dollar-quoted region is copied
\* unchanged, looked up never and bound never; a backslash-escaped or doubled
\* quote character does not end the literal.
C5_ImmuneEscapedAnyQuote == C5_Immune(TRUE)

\* C5, amended: a backslash escapes only inside single- and double-quoted
\* literals; a backtick- or bracket-quoted identifier goes on only over a
\* doubled closer (backticks quote in MySQL and SQLite, brackets in SQL
\* Server, # comments in MySQL).
C5_ImmuneEscapedQuotes == C5_Immune(FALSE)

\* a literal with a backslash-escaped quote before :z, then a real placeholder
C5_Witness ==
    /\ Succeeded
    /\ q = <<"x", " ">> \o SQEscLit \o PhA
    /\ Len(lookups) = 1 /\ Len(ret.args) = 1

(***************************************************************************)
(* C6: MaxParams.                                                          *)
(***************************************************************************)
\* the commas of s[from, to)
RECURSIVE Commas(_, _, _)
Commas(s, from, to) ==
    IF from >= to THEN 0
    ELSE (IF At(s, from) = "," THEN 1 ELSE 0) + Commas(s, from + 1, to)

\* the tokens the placeholder at q[at] asks for: rows * columns of a
\* row-block, the length of a collection, 1 for a single value
BatchAt(at) ==
    LET k == NameEnd(q, at + 2)
        name == Sub(q, at + 1, k)
        v == lookup(inputs, name).v
    IN IF k < Len(q) /\ At(q, k) = "{"
       THEN Len(rowsLookup(inputs, name).rows)
                * (Commas(q, k, k + IndexFrom(q, k, <<"}">>, 0)) + 1)
       ELSE IF Expands(v, FALSE) THEN Len(v.elems)
       ELSE 1

C6_State ==
    /\ config.MaxParams > 0 => n <= config.MaxParams
    /\ (Done /\ ret.err.kind = "ErrTooManyParams") =>
        /\ config.MaxParams > 0
        /\ ret.err.limit = config.MaxParams
        /\ ret.err.requested = n + BatchAt(i)
        /\ ret.err.requested > config.MaxParams
C6_Step ==
    (pc # "done" /\ pc' = "done" /\ ret'.err.kind = "ErrTooManyParams")
        => (buf' = buf /\ args' = args /\ n' = n /\ emitted' = emitted)

\* C6: with MaxParams = L > 0 the ordinal counter never exceeds L; the render
\* fails with ErrTooManyParams exactly when the tokens emitted plus the batch
\* (1, K, rows * columns) exceed L, before anything of the batch is written,
\* so a total of exactly L succeeds; MaxParams < 0 imposes no limit.
C6_Limit == [](C6_State) /\ [][C6_Step]_vars

\* a render that reaches the limit exactly
C6_Witness ==
    /\ Succeeded /\ config.MaxParams = 3 /\ n = config.MaxParams

(***************************************************************************)
(* C7: nothing is returned with an error.                                  *)
(***************************************************************************)
\* C7: when parse returns an error, the text is empty and the argument list
\* is nil, whatever had been emitted before.
C7_NoPartialResult ==
    (Done /\ ret.err # NoErr) => (ret.text = <<>> /\ ret.argsNil /\ ret.args = <<>>)

\* a render that fails after it had written tokens
C7_Witness ==
    /\ Done /\ ret.err # NoErr
    /\ Len(emitted) >= 1 /\ buf # <<>>

(***************************************************************************)
(* C8: ambiguous columns.                                                  *)
(***************************************************************************)
\* C8: a lookup of a name that two leaf fields of the record expose never
\* reports an ordinary value as found: it signals the ambiguity.  (C exposes
\* "a" through A.ID and through B.ID.)
C8_AmbiguousNeverPicked ==
    (/\ call.fn \in {"singleLookup", "getColValue"}
     /\ deIndirect(call.in).kind = "struct"
     /\ deIndirect(call.in).type = "C"
     /\ call.name = nA)
        => (result.ok => result.v.kind = "ambiguous")

(***************************************************************************)
(* C9: the last Bind wins.                                                 *)
(***************************************************************************)
\* C9: after any sequence of Bind calls, Build binds every name to the value
\* of the most recent Bind call that supplied the name.
C9_LastBindWins ==
    Succeeded => ret.args = <<supplied.by[nA], supplied.by[nB]>>

(***************************************************************************)
(* C10: the resolver.                                                      *)
(***************************************************************************)
\* the inputs that yield the name
Yielding(name) == { k \in 1..Len(inputs) : singleLookup(inputs[k], name).ok }
YieldingRows(name) == { k \in 1..Len(inputs) : singleRowsLookup(inputs[k], name).ok }
Last(S) == CHOOSE k \in S : \A j \in S : j <= k

\* C10: lookup and rowsLookup return the hit of the highest-indexed input
\* that yields one, and not-found iff none does; the lookups of the refactored
\* parse (fast bag first) return the same.
C10_LastHitWins ==
    /\ call.fn \in {"lookup", "fastLookup"} =>
        IF Yielding(call.name) = {} THEN result = Miss
        ELSE result = singleLookup(inputs[Last(Yielding(call.name))], call.name)
    /\ call.fn \in {"rowsLookup", "fastRowsLookup"} =>
        IF YieldingRows(call.name) = {} THEN result = RowsMiss
        ELSE result = singleRowsLookup(inputs[Last(YieldingRows(call.name))], call.name)

(***************************************************************************)
(* C11: values never reach the text.                                       *)
(***************************************************************************)
\* the value with every datum erased: its kind, its element and row counts
\* and its names are all that is left
RECURSIVE Erase(_)
Erase(v) ==
    CASE v.kind = "int" -> [v EXCEPT !.ival = 0]
      [] v.kind = "ptr" -> [v EXCEPT !.to = Erase(v.to)]
      [] v.kind = "scalar" -> [v EXCEPT !.inner = Erase(v.inner)]
      [] v.kind \in {"slice", "array"} ->
            [v EXCEPT !.elems = [j \in 1..Len(v.elems) |-> Erase(v.elems[j])]]
      [] v.kind = "struct" -> [v EXCEPT !.f = [j \in 1..Len(v.f) |-> Erase(v.f[j])]]
      [] v.kind = "map" -> [v EXCEPT !.m = [k \in DOMAIN v.m |-> Erase(v.m[k])]]
      [] OTHER -> v
EraseAll(ins) == [j \in 1..Len(ins) |-> Erase(ins[j])]

\* count tokens from ordinal k + 1 on, separated by ", "
RECURSIVE TokenList(_, _, _)
TokenList(d, k, count) ==
    IF count = 0 THEN <<>>
    ELSE TokenText(d, k + 1)
         \o (IF count > 1 THEN <<",", " ">> ELSE <<>>)
         \o TokenList(d, k + 1, count - 1)
\* R groups of C tokens: (t, t), (t, t)
RECURSIVE RowGroups(_, _, _, _)
RowGroups(d, k, R, C) ==
    IF R = 0 THEN <<>>
    ELSE <<"(">> \o TokenList(d, k, C) \o <<")">>
         \o (IF R > 1 THEN <<",", " ">> ELSE <<>>)
         \o RowGroups(d, k + C, R - 1, C)

\* the template s with every placeholder replaced by its tokens, the number
\* of tokens taken from the shape of the inputs alone (s has no literal,
\* comment or dollar-quoted region)
RECURSIVE ShapeTextFrom(_, _, _, _, _)
ShapeTextFrom(s, d, shape, p, k) ==
    IF p >= Len(s) THEN <<>>
    ELSE IF IsPlaceholderAt(s, p) THEN
        LET e == NameEnd(s, p + 2)
            name == Sub(s, p + 1, e)
        IN IF e < Len(s) /\ At(s, e) = "{" THEN
               LET rc == readCols(s, e)
                   R == Len(rowsLookup(shape, name).rows)
                   C == Len(rc.cols)
               IN RowGroups(d, k, R, C) \o ShapeTextFrom(s, d, shape, rc.k2, k + R * C)
           ELSE
               LET c == Len(ArgsOf(lookup(shape, name).v, FALSE))
               IN TokenList(d, k, c) \o ShapeTextFrom(s, d, shape, e, k + c)
    ELSE <<At(s, p)>> \o ShapeTextFrom(s, d, shape, p + 1, k)
ShapeText(s, d, shape) == ShapeTextFrom(s, d, shape, 0, 0)

NoOpener(s) == \A p \in 1..Len(s) : s[p] \notin (OpenerChars \ {"{"})

\* C11: the text of a render is a function of the template, the dialect and
\* the shape of the inputs (names, kinds, element and row counts), never of
\* the bound values: it is the template with each placeholder replaced by
\* tokens and the separators of an expansion, so two renders whose inputs
\* have the same shape return the same text.
C11_TextFromShapeOnly ==
    (Succeeded /\ NoOpener(q)) => ret.text = ShapeText(q, dialect, EraseAll(inputs))

\* a render of a value and a row-block over two rows whose values all differ
\* from the erased ones
C11_Witness ==
    /\ Succeeded /\ q = PhA \o PhRowsAB
    /\ Len(ret.args) = 5
    /\ \A j \in 1..5 : ret.args[j].kind = "int" /\ ret.args[j].ival # 0

(***************************************************************************)
(* C12: termination.                                                       *)
(***************************************************************************)
\* parse has returned, or its goroutine has panicked
Terminated == pc \in {"done", "panic"}

\* the iterations left: the bytes of the template not yet consumed, and the
\* tokens of the expansion in progress not yet written
Remaining ==
    [bytes |-> Len(q) - i,
     tokens |-> CASE pc = "slice" -> Len(blk.vals) - blk.t
                  [] pc = "rows" -> Len(blk.rows) * Len(blk.cols)
                                    - (blk.r * Len(blk.cols) + blk.c)
                  [] OTHER -> 0]

\* the cursor stays within the template and an expansion within its batch;
\* a render that ends inside a literal, a comment or a dollar-quoted region
\* has consumed the input and returns without error, the text ending with
\* the last byte of the region
C12_State ==
    /\ Remaining.bytes >= 0 /\ Remaining.tokens >= 0
    /\ pc \in {"slice", "rows"} => (Remaining.bytes > 0 /\ Remaining.tokens > 0)
    /\ (Done /\ state # "sText") =>
           (ret.err = NoErr /\ i = Len(q) /\ ret.text # <<>>
               /\ ret.text[Len(ret.text)] = q[Len(q)])

\* every iteration of the scanning loop advances the cursor; an expansion
\* advances its own counters and leaves the loop with the cursor advanced
C12_Step ==
    /\ (pc = "scan" /\ pc' = "scan" /\ renders' = renders) => i' > i
    /\ (pc \in {"slice", "rows"} /\ pc' = "scan") => i' > i
    /\ (pc \in {"slice", "rows"} /\ pc' = pc) =>
           (i' = i /\ Remaining'.tokens < Remaining.tokens)
    /\ (pc = "scan" /\ pc' \in {"slice", "rows"}) => i' = i
    /\ pc \in {"done", "panic"} => (pc' = "scan" /\ renders' = renders + 1)

\* C12: parse terminates for every template in every dialect: each iteration
\* of the scanning loop strictly advances the cursor, which never passes the
\* end of the template (an expansion writes one token of its batch per
\* iteration), and an unterminated literal, block comment or dollar-quoted
\* region consumes the rest of the input and ends the render without error.
C12_Terminates == [](C12_State) /\ [][C12_Step]_vars

\* a render that ended inside a dollar-quoted region that holds a placeholder
C12_Witness ==
    /\ Succeeded /\ state = "sDQD"
    /\ q = UntermDQD \o PhA
    /\ ret.text = q /\ lookups = <<>>

(***************************************************************************)
(* C13: casts.                                                             *)
(***************************************************************************)
\* the colon at offset p belongs to a run of two or more colons
InColonRun(s, p) ==
    /\ At(s, p) = ":"
    /\ \/ p + 1 < Len(s) /\ At(s, p + 1) = ":"
       \/ p > 0 /\ At(s, p - 1) = ":"

\* a template of plain text, single-quoted literals apart: every colon of a
\* run copied, every lone colon before an identifier replaced by a token
RECURSIVE CastTextFrom(_, _, _, _, _)
CastTextFrom(s, d, p, k, quoted) ==
    IF p >= Len(s) THEN <<>>
    ELSE IF At(s, p) = "'"
         THEN <<"'">> \o CastTextFrom(s, d, p + 1, k, ~quoted)
    ELSE IF /\ ~quoted /\ At(s, p) = ":" /\ ~InColonRun(s, p)
            /\ p + 1 < Len(s) /\ isAlphaUnderscore(At(s, p + 1))
         THEN TokenText(d, k + 1) \o CastTextFrom(s, d, NameEnd(s, p + 2), k + 1, quoted)
    ELSE <<At(s, p)>> \o CastTextFrom(s, d, p + 1, k, quoted)
CastText(s, d) == CastTextFrom(s, d, 0, 0, FALSE)

C13_Case == q \in CastTemplates

\* C13: a colon of a run of two or more colons never starts a placeholder:
\* no lookup is made for the identifier after the run, no token is emitted
\* for it and the run is copied unchanged.
C13_CastsCopied ==
    /\ \A j \in 1..Len(lookups) : ~InColonRun(q, lookups[j].at)
    /\ (Done /\ C13_Case) => (ret.err = NoErr /\ ret.text = CastText(q, dialect))

\* a render of  :a::b :b  -- two tokens, the cast copied between them
C13_Witness ==
    /\ Succeeded /\ q = PhA \o <<":", ":", "b">> \o PhB
    /\ Len(lookups) = 2 /\ Len(ret.args) = 2
    /\ ret.text = TokenText(dialect, 1) \o <<":", ":", "b", " ">> \o TokenText(dialect, 2)

(***************************************************************************)
(* Scanning NULL.                                                          *)
(***************************************************************************)
\* ScanOne has run rows.Scan on the first row into a struct
OneScanned ==
    /\ dest.mode = "one" /\ dest.type # "int" /\ scanSt # Nil
    /\ mpc \in {"second", "done"}
\* the columns of a row that are NULL and go to a plain value field
ValueNulls(row) ==
    { c \in 1..Len(row) : scanSt.plan.kinds[c] = "ckValue" /\ row[c] = Nil }
\* the columns of a row that are NULL and go to a pointer field
PointerNulls(row) ==
    { c \in 1..Len(row) :
        /\ scanSt.plan.kinds[c] \in {"ckPtr", "ckScanner"}
        /\ TypeAt(dest.type, scanSt.plan.fPath[c]).k = "ptr"
        /\ row[c] = Nil }
Least(S) == CHOOSE x \in S : \A y \in S : x <= y

\* C14: when ScanOne scans a row into a struct, a NULL that goes to a plain
\* value field makes the scan return the error of rows.Scan for the first
\* such column; without one the scan succeeds and every pointer field whose
\* column is NULL is nil, a pointer to a Scanner type included.
C14_NullIntoLeaf ==
    OneScanned =>
        IF ValueNulls(cursor.rows[1]) # {}
        THEN mpc = "done" /\ mret = ErrScanNull(Least(ValueNulls(cursor.rows[1])))
        ELSE /\ mret.kind # "rows.Scan"
             /\ \A c \in PointerNulls(cursor.rows[1]) :
                    LeafAt(dest.v, scanSt.plan.fPath[c]) = NilPtr

\* an S whose pointers were set takes a row with NULL in b and in c
C14_Witness ==
    /\ OneScanned /\ dest.type = "S" /\ dest.used = 2 /\ mpc = "second"
    /\ cursor.cols = <<nA, nB, nC>>
    /\ cursor.rows[1][2] = Nil /\ cursor.rows[1][3] = Nil
    /\ LeafAt(dest.v, <<1>>) = NilPtr /\ LeafAt(dest.v, <<2>>) = NilPtr

(***************************************************************************)
(* Scanning many rows.                                                     *)
(***************************************************************************)
\* scanAll is in its loop over the rows of a []T or []*T, or has left it
AllScanning == dest.mode = "all" /\ dest.type # "int" /\ scanSt # Nil
\* the number of leading elements whose row was scanned completely
ScannedRows ==
    IF mpc = "rowsScan" \/ (mpc = "done" /\ mret.kind = "rows.Scan")
    THEN dest.len - 1 ELSE dest.len
\* the struct of element k
ElemStruct(k) == IF dest.ptrs THEN dest.arr[k].to ELSE dest.arr[k]
\* the columns that go to a pointer field
PointerCols ==
    { c \in 1..Len(cursor.cols) :
        /\ scanSt.plan.kinds[c] \in {"ckPtr", "ckScanner"}
        /\ TypeAt(dest.type, scanSt.plan.fPath[c]).k = "ptr" }
ElemLeaf(k, c) == LeafAt(ElemStruct(k), scanSt.plan.fPath[c])

\* C15: in scanAll over structs every holder is nil when rows.Scan is about
\* to run, the pointer field of element k for a column is nil exactly when
\* row k holds NULL in that column, and no two pointer fields of the scanned
\* elements point to the same object.
C15_FreshPerRow ==
    AllScanning =>
        /\ mpc = "rowsScan" =>
              \A c \in 1..Len(cursor.cols) : scanSt.holders[c] \in {NilPtr, NoHolder}
        /\ \A k \in 1..ScannedRows : \A c \in PointerCols :
              (ElemLeaf(k, c) = NilPtr) <=> (cursor.rows[k][c] = Nil)
        /\ \A k1, k2 \in 1..ScannedRows : \A c1, c2 \in PointerCols :
              (ElemLeaf(k1, c1) # NilPtr /\ ElemLeaf(k2, c2) # NilPtr
                  /\ <<k1, c1>> # <<k2, c2>>)
              => ElemLeaf(k1, c1).addr # ElemLeaf(k2, c2).addr

\* a []S that held an element takes a row with a value in b and a row with
\* NULL in b
C15_Witness ==
    /\ AllScanning /\ dest.type = "S" /\ dest.used = 2
    /\ mpc = "done" /\ mret = NoErr /\ dest.len = 2
    /\ cursor.cols = <<nA, nB, nC>>
    /\ cursor.rows[1][2] # Nil /\ cursor.rows[2][2] = Nil
    /\ cursor.rows[1][3] # Nil /\ cursor.rows[2][3] # Nil
    /\ ElemLeaf(1, 2) # NilPtr /\ ElemLeaf(2, 2) = NilPtr

(***************************************************************************)
(* ScanOne: exactly one row.                                               *)
(***************************************************************************)
\* ScanOneContext has returned after the cursor was opened
OneReturned == dest.mode = "one" /\ mpc = "done" /\ cursor.opened
\* the errors scanOne returns
ScanErrKinds == {"rows.Scan", "dest", "ErrFieldAmbiguous"}
\* what ScanOneContext returns for a second row, what nil means, and the
\* cursor closed
OneRowRest ==
    /\ (Len(cursor.rows) >= 2 /\ mret.kind \notin ScanErrKinds)
          => mret = ErrMoreThanOneRow
    /\ mret = NoErr
          => /\ Len(cursor.rows) = 1 /\ cursor.pos = 1 /\ ~cursor.fails
             /\ IF dest.type = "int" THEN dest.v = cursor.rows[1][1]
                ELSE scanSt # Nil /\ ValueNulls(cursor.rows[1]) = {}
    /\ cursor.closed

\* C16 as stated: ScanOneContext returns sql.ErrNoRows whenever the cursor
\* yields no row, ErrMoreThanOneRow when a second row follows the scanned
\* first one, nil only for exactly one row scanned without error, and the
\* cursor is closed on every path after it was opened.
C16_Original ==
    OneReturned =>
        /\ Len(cursor.rows) = 0 => mret = ErrNoRows
        /\ OneRowRest

\* C16: as C16_Original, except that for a cursor that yields no row
\* ScanOneContext returns the error of the cursor when it ended with one,
\* and sql.ErrNoRows only when it ended without error.
C16_OneRowExactly ==
    OneReturned =>
        /\ Len(cursor.rows) = 0 =>
              mret = IF cursor.fails THEN ErrCursor ELSE ErrNoRows
        /\ OneRowRest

\* a cursor that fails before its first row
C16_Witness ==
    /\ OneReturned /\ Len(cursor.rows) = 0 /\ cursor.fails
    /\ mret = ErrCursor /\ cursor.closed

(***************************************************************************)
(* Builder handles.                                                        *)
(***************************************************************************)
\* the handles on which neither Build nor Release has returned
LiveHandles == { h \in 1..Len(hnd) : ~hnd[h].finished }
\* the builder behind a handle holds what the owner of the handle wrote
HoldsOwn(h) ==
    /\ ~objs[hnd[h].obj].released
    /\ Stmt(objs[hnd[h].obj]) = Stmt(hnd[h])

\* C17: once Build or Release has returned on a handle, every later Write,
\* Bind, Preview or Build through it yields ErrBuilderReleased, and no
\* operation through it changes or releases a statement: the builder of
\* every handle still in use holds exactly what its owner wrote.
C17_SingleUse ==
    /\ (lastOp.stale /\ lastOp.op # "Release") => lastOp.err = ErrBuilderReleased
    /\ \A h \in LiveHandles : HoldsOwn(h)

\* C18: on a shared SQLR no two handles in use, and no SQLR.Write in
\* progress, have the same Builder object, and every Build returns the
\* rendering of what the owner of its handle wrote and bound.
C18_NoSharing ==
    /\ \A h1, h2 \in LiveHandles : h1 # h2 => hnd[h1].obj # hnd[h2].obj
    /\ \A g \in Getting : \A h \in LiveHandles : gr[g].o # hnd[h].obj
    /\ \A g1, g2 \in Getting : g1 # g2 => gr[g1].o # gr[g2].o
    /\ lastOp.op = "Build" =>
          [err |-> lastOp.err, out |-> lastOp.out] = Rendered(hnd[lastOp.h])

\* a Build with a bound value has returned while the other goroutine is
\* between the snapshot and the release of its own Build
C18_Witness ==
    /\ lastOp.op = "Build" /\ lastOp.err = NoErr /\ lastOp.out.in # <<>>
    /\ \E g \in policy.goroutines :
          /\ g # hnd[lastOp.h].owner /\ gr[g].pc = "building"
          /\ gr[g].o # hnd[lastOp.h].obj

\* a step in which Preview returns
PreviewStep == lastOp'.op = "Preview" /\ hnd' # hnd
\* a step in which a method returns on the handle Preview just returned on
AfterPreview(op) ==
    /\ lastOp.op = "Preview" /\ ~lastOp.stale /\ hnd' # hnd
    /\ lastOp'.h = lastOp.h /\ lastOp'.op = op

\* C19: Preview changes no builder and not the pool; a Preview or a Build
\* that follows a Preview on the same handle returns what that Preview
\* returned; a Write that follows a successful Preview is accepted.
C19_Step ==
    /\ PreviewStep => objs' = objs /\ pool' = pool
    /\ (AfterPreview("Preview") \/ AfterPreview("Build")) =>
          lastOp'.err = lastOp.err /\ lastOp'.out = lastOp.out
    /\ (AfterPreview("Write") /\ lastOp.err = NoErr) =>
          /\ lastOp'.err = NoErr
          /\ Len(objs'[hnd[lastOp.h].obj].parts) = Len(objs[hnd[lastOp.h].obj].parts) + 1
C19_PreviewPure == [][C19_Step]_vars

\* after Bind, Preview and Preview on one handle the builder is not released
C19_Witness ==
    /\ lastOp.op = "Preview" /\ lastOp.err = NoErr /\ lastOp.out.in # <<>>
    /\ hnd[lastOp.h].ops = 3 /\ Len(hnd[lastOp.h].parts) = 1
    /\ Len(InputsOf(hnd[lastOp.h])) = 1
    /\ HoldsOwn(lastOp.h)

(***************************************************************************)
(* The size of a cache.                                                    *)
(***************************************************************************)
\* C20: each generation of a cache holds at most max keys, so at most
\* 2*max entries are resident, whatever the interleaving of get and put.
C20_Bounded ==
    /\ Cardinality(DOMAIN curr) <= CacheMax
    /\ Cardinality(DOMAIN prev) <= CacheMax
    /\ Cardinality(DOMAIN curr) + Cardinality(DOMAIN prev) <= 2 * CacheMax

\* both generations are full and a get is about to promote a key of prev
C20_Witness ==
    /\ Cardinality(DOMAIN curr) = CacheMax /\ Cardinality(DOMAIN prev) = CacheMax
    /\ DOMAIN curr \cap DOMAIN prev = {}
    /\ \E g \in CacheGoroutines : cg[g].pc = "promote" /\ cg[g].key \in DOMAIN prev

(***************************************************************************)
(* Binding a record and scanning it back.                                  *)
(***************************************************************************)
\* a value without the addresses of its pointers (reflect.DeepEqual)
RECURSIVE Plain(_)
Plain(v) ==
    CASE v.kind = "ptr" -> Ptr(Plain(v.to))
      [] v.kind = "struct" -> [v EXCEPT !.f = [j \in 1..Len(v.f) |-> Plain(v.f[j])]]
      [] OTHER -> v

\* every pointer to a flattened sub-record is set, at every depth
RECURSIVE SubRecordsPresent(_)
SubRecordsPresent(v) ==
    \A j \in 1..Len(v.f) :
        shouldFlatten(TypeDefs[v.type][j].ft) =>
            /\ v.f[j].kind # "nilptr"
            /\ SubRecordsPresent(deIndirect(v.f[j]))

\* the scan of the bound record's row has returned
RoundDone == mpc = "done" /\ cursor.opened
\* the record the row was scanned into
RoundResult ==
    IF dest.mode = "one" THEN dest.v
    ELSE IF dest.ptrs THEN Elems[1].to ELSE Elems[1]
RoundEqual == mret = NoErr /\ Plain(RoundResult) = Plain(cursor.bound)

\* C21 as stated: every record of a supported shape, bound by its column
\* names and scanned back from a row holding the produced arguments into a new
\* record of its type, is reconstructed field for field.
C21_Original == RoundDone => RoundEqual

\* C21: a record whose pointers to sub-records are all set, bound by its
\* column names and scanned back from a row holding the produced arguments
\* into a new record of its type, is reconstructed field for field: direct
\* leaves, optional leaves (nil or set), custom-conversion leaves, nested and
\* pointer-nested sub-records.
C21_RoundTrip == (RoundDone /\ SubRecordsPresent(cursor.bound)) => RoundEqual

\* a W whose sub-record has its optional leaf set and its custom leaf nil has
\* come back equal as the element of a []*W
C21_Witness ==
    /\ RoundDone /\ RoundEqual
    /\ dest.mode = "all" /\ dest.ptrs /\ dest.len = 1
    /\ cursor.bound.type = "W"
    /\ cursor.bound.f[1].kind = "ptr"
    /\ cursor.bound.f[1].to.f[2] = Ptr(IntV(8))
    /\ cursor.bound.f[1].to.f[3] = NilPtr
    /\ cursor.bound.f[2] = Scanned("NullX", IntV(3))

(***************************************************************************)
(* The two statements rendered in full.                                    *)
(***************************************************************************)
\* SELECT * FROM t WHERE id IN ($1,$2,$3) AND s=$4
SelectInTight ==
    << "S", "E", "L", "E", "C", "T", " ", "*", " ", "F", "R", "O",
       "M", " ", "t", " ", "W", "H", "E", "R", "E", " ", "i", "d",
       " ", "I", "N", " ", "(", "$", "1", ",", "$", "2", ",", "$",
       "3", ")", " ", "A", "N", "D", " ", "s", "=", "$", "4" >>
\* SELECT * FROM t WHERE id IN ($1, $2, $3) AND s=$4
SelectInSpaced ==
    << "S", "E", "L", "E", "C", "T", " ", "*", " ", "F", "R", "O",
       "M", " ", "t", " ", "W", "H", "E", "R", "E", " ", "i", "d",
       " ", "I", "N", " ", "(", "$", "1", ",", " ", "$", "2", ",",
       " ", "$", "3", ")", " ", "A", "N", "D", " ", "s", "=", "$",
       "4" >>
\* INSERT INTO u(id,name) VALUES (?,?),(?,?)
InsertRowsTight ==
    << "I", "N", "S", "E", "R", "T", " ", "I", "N", "T", "O", " ",
       "u", "(", "i", "d", ",", "n", "a", "m", "e", ")", " ", "V",
       "A", "L", "U", "E", "S", " ", "(", "?", ",", "?", ")", ",",
       "(", "?", ",", "?", ")" >>
\* INSERT INTO u(id,name) VALUES (?, ?), (?, ?)
InsertRowsSpaced ==
    << "I", "N", "S", "E", "R", "T", " ", "I", "N", "T", "O", " ",
       "u", "(", "i", "d", ",", "n", "a", "m", "e", ")", " ", "V",
       "A", "L", "U", "E", "S", " ", "(", "?", ",", " ", "?", ")",
       ",", " ", "(", "?", ",", " ", "?", ")" >>

SelectInArgs == <<IntV(10), IntV(11), IntV(12), Str("active")>>
InsertRowsArgs == <<IntV(1), Str("A"), IntV(2), Str("B")>>
QuestionDialects == {"MySQL", "SQLite"}

\* the render of statement s on a dialect of ds gave the text and the args
RendersAs(s, ds, text, as) ==
    (Done /\ q = s /\ dialect \in ds) =>
        ret.err = NoErr /\ ret.text = text /\ ret.args = as

StepOf(g) == cg'[g] # cg[g]
\* neither generation changes
SameGenerations == curr' = curr /\ prev' = prev
\* the entry k -> v is inserted into curr, after a rotation when curr holds
\* max keys
Inserted(k, v) ==
    IF Cardinality(DOMAIN curr) >= CacheMax
    THEN prev' = curr /\ curr' = [x \in {k} |-> v]
    ELSE prev' = prev /\ curr' = [x \in DOMAIN curr \cup {k} |->
                                      IF x = k THEN v ELSE curr[x]]
\* g returns from its call in this step
Returns(g) == cg[g].pc # "idle" /\ cg'[g].pc = "idle"

C23_Step ==
    /\ \A g \in CacheGoroutines :
        LET k == cg[g].key IN
        \* get under the read lock
        /\ (cg[g].pc = "rlocked" /\ StepOf(g)) =>
              /\ SameGenerations
              /\ k \in DOMAIN curr =>
                    Returns(g) /\ cg'[g].hit /\ cg'[g].val = curr[k]
              /\ (k \notin DOMAIN curr /\ k \in DOMAIN prev) => ~Returns(g)
              /\ (k \notin DOMAIN curr /\ k \notin DOMAIN prev) =>
                    Returns(g) /\ ~cg'[g].hit
        \* get waiting for the write lock
        /\ (cg[g].pc = "promote" /\ StepOf(g)) => SameGenerations /\ ~Returns(g)
        \* get promoting and put, under the write lock
        /\ (cg[g].pc = "locked" /\ StepOf(g)) =>
              /\ Returns(g) /\ Inserted(k, cg[g].val)
              /\ cg[g].op = "get" => cg'[g].hit /\ cg'[g].val = cg[g].val /\ k \in DOMAIN curr'
        /\ (cg[g].pc = "idle" /\ StepOf(g)) => SameGenerations
    /\ (\A g \in CacheGoroutines : ~StepOf(g)) => SameGenerations

\* C23: get(k) returns a hit from the current generation without changing
\* either generation; on a miss there and a hit in the previous generation k is
\* inserted into the current generation before the value is returned, and when
\* the current generation already holds max keys it first becomes the previous
\* generation (the old one is dropped) and a new current generation holding
\* only k is started; put(k) inserts with the same rule; a miss in both
\* generations changes nothing.
C23_Transitions == [][C23_Step]_vars

\* a get has promoted its key out of the previous generation with a rotation:
\* the key is alone in the current generation
C23_Witness ==
    \E g \in CacheGoroutines :
        /\ cg[g].pc = "idle" /\ cg[g].op = "get" /\ cg[g].from = "prev" /\ cg[g].hit
        /\ DOMAIN curr = {cg[g].key} /\ curr[cg[g].key] = cg[g].val
        /\ Cardinality(DOMAIN prev) = CacheMax /\ cg[g].key \notin DOMAIN prev

(***************************************************************************)
(* How long an entry of a cache is kept.                                   *)
(***************************************************************************)
Resident == DOMAIN curr \cup DOMAIN prev
\* a rotation keeps the whole current generation as the previous one, and
\* between rotations the previous generation stays and the current one
\* only grows; a get of a resident key under the read lock is a hit
C24_Step ==
    /\ prev' = prev \/ prev' = curr
    /\ ~(DOMAIN curr \subseteq DOMAIN curr') =>
          (prev' = curr /\ Cardinality(DOMAIN curr') = 1)
    /\ \A k \in DOMAIN curr : k \in DOMAIN curr' \cup DOMAIN prev'
    /\ \A g \in CacheGoroutines :
          (cg[g].pc = "rlocked" /\ StepOf(g) /\ cg[g].key \in Resident) => cg'[g].hit
\* a key that was inserted and is resident no more has seen max+1 insertions
\* of other keys
C24_State ==
    (age # NoAge /\ Watched \notin Resident) => age >= CacheMax + 1

\* C24: after a rotation every entry that was in the current generation at
\* the rotation is found by get until the next rotation, and an entry is never
\* evicted by fewer than max+1 later insertions of other keys.
C24_Retained == [](C24_State) /\ [][C24_Step]_vars

\* a key has been evicted by exactly max+1 insertions of other keys
C24_Witness ==
    /\ age = CacheMax + 1 /\ Watched \notin Resident
    /\ Cardinality(DOMAIN prev) = CacheMax

(***************************************************************************)
(* Concurrent calls of one cache.                                          *)
(***************************************************************************)
\* g is in a call and its next step is not blocked
CanStep(g) ==
    \/ cg[g].pc \in {"rlocked", "locked"}
    \/ cg[g].pc = "promote" /\ mu.writer = 0 /\ mu.readers = {}

C25_State ==
    \* every entry and every hit is the value computed for its key
    /\ \A k \in DOMAIN curr : curr[k] = ValueOf(k)
    /\ \A k \in DOMAIN prev : prev[k] = ValueOf(k)
    /\ \A g \in CacheGoroutines : cg[g].hit => cg[g].val = ValueOf(cg[g].key)
    \* the lock is exclusive, and held exactly by the callers between their
    \* lock and unlock
    /\ mu.writer # 0 => mu.readers = {}
    /\ \A g \in CacheGoroutines :
          /\ (cg[g].pc = "rlocked") <=> (g \in mu.readers)
          /\ (cg[g].pc = "locked") <=> (mu.writer = g)
    \* no deadlock: while a call is pending some call can take its next step
    /\ (\E g \in CacheGoroutines : cg[g].pc # "idle") =>
          \E g \in CacheGoroutines : CanStep(g)

C25_Step ==
    \* the maps are written by the holder of the exclusive lock only
    /\ (curr' # curr \/ prev' # prev) =>
          /\ mu.writer # 0 /\ mu.readers = {}
          /\ StepOf(mu.writer) /\ mu'.writer = 0
    \* the maps are read by a holder of the read lock or of the exclusive lock
    /\ \A g \in CacheGoroutines :
          (StepOf(g) /\ cg[g].pc # "idle" /\ cg'[g].pc # "locked") =>
              (g \in mu.readers \/ mu.writer = g)

\* C25: under any interleaving of get and put on one cache, a get that
\* reports a hit for k returns the value computed for k, the generations are
\* written only under the exclusive lock and read only under the read or the
\* exclusive lock, and a pending call is never blocked for good (the holder of
\* the lock can always release it).
C25_RaceFree == [](C25_State) /\ [][C25_Step]_vars

\* a promoting get holds the write lock after the other goroutine has rotated
\* its key out of the previous generation
C25_Witness ==
    \E g \in CacheGoroutines :
        /\ cg[g].pc = "locked" /\ cg[g].op = "get" /\ cg[g].from = "prev"
        /\ cg[g].key \notin DOMAIN prev /\ cg[g].key \notin DOMAIN curr
        /\ cg[g].hit /\ cg[g].val = ValueOf(cg[g].key)

(***************************************************************************)
(* Concurrent scans that share a cached plan.                              *)
(***************************************************************************)
\* the scan of a row by a goroutine alone: the struct and the error
SoloFrom(r0, row) == scanRow(r0.s, r0.d, PlanType, r0.h, row)
SoloScan(row) ==
    SoloFrom(prepareTargets(newState(buildScanPlan(PlanCols, PlanType)),
                            Zero(TStruct(PlanType)), PlanType, 0), row)
SameOutcome(g, solo) == sc[g].err = solo.err /\ sc[g].d = solo.d

C26_State ==
    \* a scanState is read and written by the call that created it only
    /\ \A a \in 1..Len(mem.states) : Cardinality(mem.states[a].by) <= 1
    /\ \A g \in ScanGoroutines :
          sc[g].st # 0 => mem.states[sc[g].st].by = {g}
    \* a call returns what it returns when it runs alone
    /\ \A g \in ScanGoroutines :
          sc[g].pc = "done" => SameOutcome(g, SoloScan(sc[g].row))
    \* the cached plan is a stored plan
    /\ mem.cache # 0 => mem.plans[mem.cache].stored
\* a plan is not written once it is stored
C26_Step ==
    \A a \in 1..Len(mem.plans) :
        mem.plans[a].stored => mem'.plans[a] = mem.plans[a]

\* C26: a scan plan is never written after it has been stored in the plan
\* cache, and every scan call allocates its own targets, sinks and holders:
\* whatever the interleaving of calls that obtain the same cached plan, a
\* target, sink or holder written by one call is never read or written by
\* another.
C26_OwnState == [](C26_State) /\ [][C26_Step]_vars

\* both goroutines use the plan the first one cached; the first has returned
\* its row while the second is between rows.Scan and the post-assignments, its
\* holder and its sink filled
C26_Witness ==
    /\ sc[1].pc = "done" /\ sc[1].err = NoErr /\ sc[2].pc = "post"
    /\ sc[1].plan = sc[2].plan /\ Len(mem.plans) = 1
    /\ sc[1].st # sc[2].st
    /\ sc[1].row[2] # Nil /\ sc[2].row[2] # Nil /\ sc[2].row[3] # Nil
    /\ mem.states[sc[2].st].s.holders[2] # mem.states[sc[1].st].s.holders[2]

(***************************************************************************)
(* The order of the checks of a placeholder.                               *)
(***************************************************************************)
\* parse is at a placeholder
AtPlaceholder ==
    /\ Scanning /\ state = "sText"
    /\ ~parseTryEnterSpecial(q, i, dialect).ok
    /\ IsPlaceholderAt(q, i)
PhEnd == NameEnd(q, i + 2)
PhName == Sub(q, i + 1, PhEnd)
IsBlock == PhEnd < Len(q) /\ At(q, PhEnd) = "{"
\* the checks, each by itself
NameTooLong == config.MaxNameLen > 0 /\ Len(PhName) > config.MaxNameLen
ColsMalformed == ~readCols(q, PhEnd).ok \/ readCols(q, PhEnd).cols = <<>>
RowsFound == rowsLookup(inputs, PhName)
RowsOver ==
    config.MaxParams > 0
    /\ n + Len(RowsFound.rows) * Len(readCols(q, PhEnd).cols) > config.MaxParams
\* the kind of the error of the first check that fails, in the order name
\* length, column list, rows, zero rows, limit ("" when none fails)
FirstFailing ==
    IF NameTooLong THEN "ErrParamNameTooLong"
    ELSE IF ~IsBlock THEN ""
    ELSE IF ColsMalformed THEN "ErrRowsMalformed"
    ELSE IF RowsFound.panic THEN ""
    ELSE IF ~RowsFound.ok THEN "ErrParamMissing"
    ELSE IF RowsFound.rows = <<>> THEN "ErrRowsEmpty"
    ELSE IF RowsOver THEN "ErrTooManyParams"
    ELSE ""
ColumnErrors == {"ErrColumnNotFound", "ErrFieldAmbiguous"}

C27_Step ==
    AtPlaceholder =>
        /\ FirstFailing # "" =>
              /\ pc' = "done" /\ ret'.err.kind = FirstFailing
              /\ FirstFailing \in {"ErrParamNameTooLong", "ErrRowsMalformed"} =>
                    lookups' = lookups
        /\ (IsBlock /\ pc' = "done" /\ ret'.err.kind \in ColumnErrors) =>
              (FirstFailing = "" /\ ~RowsFound.panic)
        /\ (pc' = "done" /\ ret'.err.kind = "ErrParamNameTooLong") => NameTooLong

\* C27: the checks of a placeholder fire in a fixed order and the first one
\* that fails gives the error: the length of the name as soon as it is read,
\* before any lookup, for :name and for :name{...}; for a row-block then the
\* column list (ErrRowsMalformed), the rows of the name (ErrParamMissing),
\* zero rows (ErrRowsEmpty), the rows*columns limit (ErrTooManyParams) and only
\* then the columns of the rows (ErrColumnNotFound, ErrFieldAmbiguous).
C27_CheckOrder == [][C27_Step]_vars

\* a row-block whose name is too long and bound to no rows has failed with
\* ErrParamNameTooLong, without a lookup
C27_Witness ==
    /\ Done /\ ret.err = ErrParamNameTooLong(nAB)
    /\ lookups = <<>>
    /\ IsPrefix(<<":">> \o nAB \o <<"{">>, q)
    /\ ~rowsLookup(inputs, nAB).ok

(***************************************************************************)
(* What has been written when a render fails.                              *)
(***************************************************************************)
Failed == Done /\ ret.err # NoErr
\* the failure is a column error of a row-block
FailedOnColumn == Failed /\ ret.err.kind \in ColumnErrors
\* the placeholders of the failing block written before the failure
BlockWritten == IF blk = NoBlk THEN 0 ELSE blk.r * Len(blk.cols) + blk.c
\* value of the rows of the failing block
FailedRows == rowsLookup(inputs, ret.err.name).rows

\* C28 as stated: a render fails before any argument has been appended, and
\* a missing or ambiguous column of any row of a row-block is raised before
\* any placeholder of that block has been written.
C28_Original ==
    /\ Failed => args = <<>>
    /\ FailedOnColumn => BlockWritten = 0

\* C28: a render that fails returns an empty text and no arguments, although
\* the arguments and placeholders of what precedes the failure have been
\* appended by then (one argument per placeholder written); a missing or
\* ambiguous column of the first row, when that row is a record, is raised
\* before any placeholder of the block has been written, while for a later
\* row it is raised when the row is reached, after the placeholders of the
\* rows before it have been written.
C28_FailsAfterWriting ==
    /\ Failed => (ret.text = <<>> /\ ret.args = <<>> /\ ret.argsNil /\ Len(args) = n)
    /\ (FailedOnColumn /\ ret.err.record = 0
          /\ Kind(deIndirect(FailedRows[1])) = "struct") => blk = NoBlk
    /\ (FailedOnColumn /\ blk # NoBlk) =>
          /\ ret.err.record = blk.r
          /\ Len(args) >= BlockWritten
          /\ Kind(deIndirect(blk.rows[blk.r + 1])) = "struct" => blk.c = 0

\* the second record of a row-block lacks a column: the render has failed
\* after the placeholders and arguments of the first record were written
C28_Witness ==
    /\ FailedOnColumn /\ ret.err.record = 1 /\ ret.err.kind = "ErrColumnNotFound"
    /\ blk # NoBlk /\ BlockWritten = 2 /\ Len(args) >= 2
    /\ ret.args = <<>>

(***************************************************************************)
(* The column list of a row-block.                                         *)
(***************************************************************************)
\* the text of the list: from after '{' up to the first '}' (Closed says
\* whether there is one)
RECURSIVE CloseFrom(_, _)
CloseFrom(s, j) ==
    IF j >= Len(s) THEN 0 - 1
    ELSE IF At(s, j) = "}" THEN j ELSE CloseFrom(s, j + 1)
ListOpen == Len(RowsOpen)
ListClose == CloseFrom(q, ListOpen)
Closed == ListClose >= 0
ListText == Sub(q, ListOpen, ListClose)
\* the entries of a text, split at its commas (one more than the commas)
RECURSIVE SplitCommas(_, _, _)
SplitCommas(s, j, from) ==
    IF j >= Len(s) THEN << Sub(s, from, j) >>
    ELSE IF At(s, j) = "," THEN << Sub(s, from, j) >> \o SplitCommas(s, j + 1, j + 1)
    ELSE SplitCommas(s, j + 1, from)
Entries == SplitCommas(ListText, 0, 0)
Trimmed(es) == [k \in 1..Len(es) |-> TrimSpace(es[k])]
NoneEmpty(es) == \A k \in 1..Len(es) : es[k] # <<>>
\* the entries without a last one of no byte at all (a comma directly
\* before '}')
KeptEntries ==
    IF Len(Entries) > 1 /\ Entries[Len(Entries)] = <<>>
    THEN SubSeq(Entries, 1, Len(Entries) - 1)
    ELSE Entries
\* the placeholder has been dealt with
ListRead == pc # "scan" \/ i > 0
Malformed == Done /\ ret.err.kind = "ErrRowsMalformed"
\* what a render with a list accepted iff `accepted`, with columns `cols`,
\* shows
ListOutcome(accepted, cols) ==
    ListRead =>
        /\ Malformed <=> ~accepted
        /\ blk # NoBlk => blk.cols = cols
        /\ (Done /\ ret.err = NoErr) => Len(ret.args) = 2 * Len(cols)

\* C29 as stated: a list is accepted iff it is closed and none of its
\* comma-separated entries is empty after trimming, a trailing comma
\* included; the columns are the trimmed entries.
C29_Original ==
    ListOutcome(Closed /\ NoneEmpty(Trimmed(Entries)), Trimmed(Entries))

\* what readCols does: a list is accepted iff it is closed by '}' and none of
\* its comma-separated entries is empty after trimming, except that a comma
\* directly before '}' passes and adds no column ({a,} is read as {a},
\* while {a, } fails with ErrRowsMalformed).
ActualColumnList ==
    ListOutcome(Closed /\ NoneEmpty(Trimmed(KeptEntries)), Trimmed(KeptEntries))

\* :rows{a,} has been rendered over two records: one column, two arguments
TrailingCommaRendered ==
    /\ Closed /\ ListText = <<"a", ",">>
    /\ Done /\ ret.err = NoErr /\ Len(ret.args) = 2

(***************************************************************************)
(* Row-blocks over rows of mixed shapes.                                   *)
(***************************************************************************)
\* what is wrong with a column for a row ("" when the row provides it)
ColFault(row, col) ==
    LET rv == deIndirect(row) IN
    IF Kind(rv) = "struct" THEN
        IF col \notin DOMAIN FieldMapOf(rv) THEN "ErrColumnNotFound"
        ELSE IF FieldMapOf(rv)[col].ambiguous THEN "ErrFieldAmbiguous"
        ELSE ""
    ELSE IF getColValue(row, col).ok THEN "" ELSE "ErrColumnNotFound"
\* the first column of the request the row does not provide (0 when none)
FirstFault(row, cols) ==
    IF \A c \in 1..Len(cols) : ColFault(row, cols[c]) = "" THEN 0
    ELSE CHOOSE c \in 1..Len(cols) :
             /\ ColFault(row, cols[c]) # ""
             /\ \A d \in 1..(c - 1) : ColFault(row, cols[d]) = ""
\* the error of row r (0-based) of the block `name`
FaultError(row, cols, name, r) ==
    [kind |-> ColFault(row, cols[FirstFault(row, cols)]),
     col |-> cols[FirstFault(row, cols)], name |-> name, record |-> r]
IsRecord(row) == Kind(deIndirect(row)) = "struct"
RecordType(row) == TypeName(deIndirect(row))

\* the step that enters a row-block
EnterStep ==
    (AtPlaceholder /\ IsBlock /\ FirstFailing = "" /\ ~RowsFound.panic) =>
        LET cols == readCols(q, PhEnd).cols
            row == RowsFound.rows[1]
        IN /\ pc' \in {"rows", "done"}
           /\ pc' = "done" =>
                 /\ IsRecord(row) /\ FirstFault(row, cols) # 0
                 /\ ret'.err = FaultError(row, cols, PhName, 0)
           /\ pc' = "rows" =>
                 /\ IsRecord(row) => FirstFault(row, cols) = 0
                 /\ DOMAIN blk'.colPathByType =
                        IF IsRecord(row) THEN {RecordType(row)} ELSE {}
\* the step that writes a cell of a row-block, or fails on it
CellStep ==
    (pc = "rows" /\ <<pc, blk>>' # <<pc, blk>>) =>
        LET row == blk.rows[blk.r + 1]
            f == FirstFault(row, blk.cols)
            old == blk.colPathByType
        IN /\ \A j \in 1..blk.r : FirstFault(blk.rows[j], blk.cols) = 0
           /\ pc' = "done" =>
                 /\ f # 0
                 /\ ret'.err = FaultError(row, blk.cols, blk.name, blk.r)
           /\ f = 0 => (pc' # "done" /\ Len(args') = Len(args) + 1)
           /\ (f # 0 /\ pc' # "done") =>
                 (~IsRecord(row) /\ blk'.r = blk.r /\ blk'.c < f)
           /\ pc' = "rows" =>
                 /\ \A t \in DOMAIN old :
                       /\ t \in DOMAIN blk'.colPathByType
                       /\ blk'.colPathByType[t] = old[t]
                 /\ DOMAIN blk'.colPathByType \ DOMAIN old =
                        IF IsRecord(row) /\ RecordType(row) \notin DOMAIN old
                        THEN {RecordType(row)} ELSE {}
\* the rows before the current one provide every column
RowsState ==
    pc = "rows" =>
        /\ \A j \in 1..blk.r : FirstFault(blk.rows[j], blk.cols) = 0
        /\ \A j \in 1..blk.r :
              IsRecord(blk.rows[j]) => RecordType(blk.rows[j]) \in DOMAIN blk.colPathByType

\* C30: over rows of mixed shapes the error of a row-block names the first
\* row in order (0-based) that lacks (ErrColumnNotFound) or ambiguously maps
\* (ErrFieldAmbiguous) a requested column and the first such column of the
\* request; the columns are resolved once per record type, when a row of
\* that type is first met, and the resolution is kept for the later rows;
\* rows that provide every column are all written, whatever their shapes.
C30_MixedRows == [](RowsState) /\ [][EnterStep /\ CellStep]_vars

\* after a record of type R, a record of type C for which column a is
\* ambiguous: the render has failed with ErrFieldAmbiguous for record 1
C30_Witness ==
    /\ Done /\ blk # NoBlk /\ blk.r = 1
    /\ ret.err = ErrFieldAmbiguous(blk.cols[1], blk.name, 1)
    /\ RecordType(blk.rows[1]) # RecordType(blk.rows[2])
    /\ DOMAIN blk.colPathByType = {RecordType(blk.rows[1])}

(***************************************************************************)
(* Openers that depend on the dialect.                                     *)
(***************************************************************************)
\* the dialects in which a byte opens a state, and the state it opens
Gated == {"#", Backtick, "["}
GateDialects(c) ==
    CASE c = "#" -> {"MySQL"}
      [] c = Backtick -> {"MySQL", "SQLite"}
      [] c = "[" -> {"SQLServer"}
GateState(c) ==
    CASE c = "#" -> "sLC"
      [] c = Backtick -> "sBT"
      [] c = "[" -> "sBR"
InText == Scanning /\ state = "sText"
\* the byte at i, in text state, is one of the three
GateStep ==
    (InText /\ At(q, i) \in Gated) =>
        /\ buf' = Append(buf, At(q, i)) /\ i' = i + 1
        /\ args' = args /\ lookups' = lookups /\ pc' = pc
        /\ state' = IF dialect \in GateDialects(At(q, i))
                    THEN GateState(At(q, i)) ELSE "sText"
\* a :name follows one of the three, left as plain text: it is looked up
AfterGateStep ==
    (/\ InText /\ i > 0 /\ At(q, i - 1) \in Gated
     /\ dialect \notin GateDialects(At(q, i - 1))
     /\ IsPlaceholderAt(q, i)) =>
        /\ Len(lookups') = Len(lookups) + 1
        /\ lookups'[Len(lookups')].at = i
\* a byte of a line comment
CommentStep ==
    (Scanning /\ state = "sLC") =>
        /\ buf' = Append(buf, At(q, i)) /\ i' = i + 1
        /\ args' = args /\ lookups' = lookups /\ pc' = pc
        /\ state' = "sText" <=> At(q, i) \in {"\n", "\r"}
        /\ state' \in {"sText", "sLC"}
\* the states of the quoted identifiers exist in their dialects only
GateState_Inv ==
    /\ state = "sBT" => dialect \in {"MySQL", "SQLite"}
    /\ state = "sBR" => dialect = "SQLServer"

\* C31: '#' opens a line comment only in MySQL, a backtick a quoted
\* identifier only in MySQL and SQLite, '[' a quoted identifier only in SQL
\* Server; in the other dialects the byte is copied as text, the state stays
\* sText and a :name right after it is looked up as a placeholder; a line
\* comment ends at the first \n or \r.
C31_DialectGated ==
    [](GateState_Inv) /\ [][GateStep /\ AfterGateStep /\ CommentStep]_vars

\* in Postgres, "#:z" has been read: '#' copied as text and :z looked up
C31_Witness ==
    /\ dialect = "Postgres" /\ Len(q) > 1 /\ At(q, 0) = "#"
    /\ lookups # <<>> /\ lookups[1].at = 1 /\ lookups[1].name = nZ
    /\ buf # <<>> /\ buf[1] = "#"

(***************************************************************************)
(* Dollar-quoted regions.                                                  *)
(***************************************************************************)
\* the positions j > i such that q[i..j] is '$', letters, digits or
\* underscores, '$'
TagCloses(s, at) ==
    { j \in (at + 1)..(Len(s) - 1) :
        /\ At(s, j) = "$"
        /\ \A k \in (at + 1)..(j - 1) : isAlphaNumUnderscore(At(s, k)) }
\* the positions at or after `at` where the text `tag` occurs
Occurrences(s, at, tag) ==
    { p \in at..(Len(s) - Len(tag)) : Sub(s, p, p + Len(tag)) = tag }
\* nothing but the text moves
CopiedTo(j) ==
    /\ buf' = buf \o Sub(q, i, j) /\ i' = j
    /\ args' = args /\ lookups' = lookups /\ n' = n /\ pc' = pc

\* a '$' in text state
DollarStep ==
    (InText /\ At(q, i) = "$") =>
        IF TagCloses(q, i) # {}
        THEN /\ CopiedTo(Least(TagCloses(q, i)) + 1)
             /\ state' = "sDQD"
             /\ dqTag' = Sub(q, i, Least(TagCloses(q, i)) + 1)
        ELSE /\ CopiedTo(i + 1)
             /\ state' = "sText"
\* the region: up to and including the next occurrence of its tag, or the
\* rest of the statement
RegionStep ==
    (Scanning /\ state = "sDQD") =>
        IF Occurrences(q, i, dqTag) # {}
        THEN /\ CopiedTo(Least(Occurrences(q, i, dqTag)) + Len(dqTag))
             /\ state' = "sText"
        ELSE /\ CopiedTo(Len(q))
             /\ state' = "sDQD"
\* the tag of the region being read is '$', a run of letters, digits and
\* underscores, '$'
RegionState ==
    state = "sDQD" =>
        /\ Len(dqTag) >= 2 /\ dqTag[1] = "$" /\ dqTag[Len(dqTag)] = "$"
        /\ \A k \in 2..(Len(dqTag) - 1) : isAlphaNumUnderscore(dqTag[k])

\* C32: in every dialect '$', a possibly empty run of letters, digits and
\* underscores and '$' open a dollar-quoted region with that tag; the region
\* is copied up to and including the next occurrence of the same tag (another
\* tag inside does not end it), or to the end of the statement when the tag
\* does not occur again; a '$' that opens no tag is copied as text.
C32_DollarQuoted == [](RegionState) /\ [][DollarStep /\ RegionStep]_vars

\* "$t$$$:a$t$" has been rendered: the $$ inside did not end the region and
\* :a was not looked up
C32_Witness ==
    /\ q = <<"$", "t", "$", "$", "$", ":", "a", "$", "t", "$">>
    /\ Done /\ ret.err = NoErr /\ ret.text = q /\ lookups = <<>>

(***************************************************************************)
(* The strategies of a scan plan.                                          *)
(***************************************************************************)
Built == call.fn = "buildScanPlan"
\* the requested columns whose name is ambiguous in the destination type
AmbiguousCols ==
    { c \in 1..Len(call.cols) :
        /\ call.cols[c] \in DOMAIN fieldIndexMap(call.type)
        /\ fieldIndexMap(call.type)[call.cols[c]].ambiguous }
\* the leaf type a column maps to
LeafType(t, col) == TypeAt(t, fieldIndexMap(t)[col].index)
\* the type or the pointer to it implements sql.Scanner
ScanCapable(ft) == "scanner" \in DOMAIN ft /\ ft.scanner
Strategy(t, col) ==
    IF col \notin DOMAIN fieldIndexMap(t) THEN "ckSink"
    ELSE IF ScanCapable(LeafType(t, col)) THEN "ckScanner"
    ELSE IF LeafType(t, col).k = "ptr" THEN "ckPtr"
    ELSE "ckValue"

\* C33: buildScanPlan gives every column one strategy: ckSink iff no field
\* maps the name, ckScanner iff the leaf type or the pointer to it implements
\* sql.Scanner (a pointer leaf that does is ckScanner, not ckPtr), ckPtr iff
\* the leaf is another pointer, ckValue otherwise; it fails with
\* ErrFieldAmbiguous, naming the first such column, iff a requested column is
\* ambiguous, whatever other ambiguous names the type has.
C33_Strategies ==
    Built =>
        /\ result.err # NoErr <=> AmbiguousCols # {}
        /\ AmbiguousCols # {} =>
              result.err = ErrPlanAmbiguous(call.cols[Least(AmbiguousCols)])
        /\ AmbiguousCols = {} =>
              /\ Len(result.kinds) = Len(call.cols)
              /\ \A c \in 1..Len(call.cols) :
                    result.kinds[c] = Strategy(call.type, call.cols[c])
              /\ \A k \in 1..Len(result.ptrIdx) :
                    result.kinds[result.ptrIdx[k]] = "ckPtr"
              /\ Len(result.ptrIdx) =
                    Cardinality({ c \in 1..Len(call.cols) : result.kinds[c] = "ckPtr" })

\* the plan of type S for the columns c, b, z: *Upper is ckScanner, *int is
\* ckPtr, z is discarded
C33_Witness ==
    /\ Built /\ call.type = "S" /\ call.cols = <<nC, nB, nZ>>
    /\ result.err = NoErr /\ result.kinds = <<"ckScanner", "ckPtr", "ckSink">>

(***************************************************************************)
(* The walk of fieldIndexMap.                                              *)
(***************************************************************************)
WalkCalled == call.fn = "fieldIndexMap"
WalkOver == WalkCalled /\ call.stack = <<>>
\* the frames of the types being expanded
Expanding == { k \in 1..Len(call.stack) : call.stack[k].entered }
WalkState ==
    WalkCalled =>
        \* no type is expanded twice at a time, and the guard holds exactly
        \* the types being expanded
        /\ \A j, k \in Expanding : call.stack[j].rt = call.stack[k].rt => j = k
        /\ call.visited = { call.stack[k].rt : k \in Expanding }
        /\ \A k \in 1..(Len(call.stack) - 1) : call.stack[k].entered
        /\ Len(call.stack) <= Cardinality(DOMAIN TypeDefs) + 1
        \* the map it ends with is the one the resolver uses
        /\ WalkOver => (call.visited = {} /\ result = fieldIndexMap(call.type))
WalkStep ==
    (WalkCalled /\ WalkCalled') =>
        /\ DOMAIN result \subseteq DOMAIN result'
        /\ \A name \in DOMAIN result :
              result[name].ambiguous => result'[name].ambiguous
        \* a type being expanded is not entered; the guard entry goes when the
        \* expansion ends
        /\ (Walking /\ ~Top.entered /\ Top.rt \in call.visited) =>
              (call'.stack = Pop /\ call'.visited = call.visited)
        /\ (Walking /\ Top.entered /\ Len(call'.stack) < Len(call.stack)) =>
              call'.visited = call.visited \ {Top.rt}

\* C34: fieldIndexMap terminates for every struct type, self-referential and
\* mutually recursive ones included: a type is never entered again while it
\* is being expanded, its guard entry is removed when its expansion ends (the
\* same type at a sibling position is expanded again, and its names collide
\* as ambiguous), and a name once ambiguous stays ambiguous.
C34_WalkTerminates ==
    /\ [](WalkState) /\ [][WalkStep]_vars
    /\ [](WalkCalled => <>WalkOver)

\* type Twin struct { L A; M *A; Z int `db:"a"` } has been walked: A was
\* expanded at both positions and "a" is ambiguous
C34_Witness ==
    /\ WalkOver /\ call.type = "Twin"
    /\ DOMAIN result = {nA} /\ result[nA].ambiguous

(***************************************************************************)
(* Errors recorded by Bind.                                                *)
(***************************************************************************)
BindErrors == {"ErrBindOdd", "ErrBindKey"}
\* the builder of handle h is in use and Bind has recorded an error in it
Stuck(h) ==
    /\ ~hnd[h].finished /\ ~objs[hnd[h].obj].released
    /\ objs[hnd[h].obj].err.kind \in BindErrors
\* method op returns on handle h in this step
ReturnsOn(op, h) ==
    /\ lastOp'.op = op /\ lastOp'.h = h
    /\ hnd'[h].ops = hnd[h].ops + 1
StickyStep ==
    \A h \in 1..Len(hnd) :
        Stuck(h) =>
            LET o == hnd[h].obj IN
            /\ (ReturnsOn("Write", h) \/ ReturnsOn("Bind", h)) =>
                  (objs'[o] = objs[o] /\ lastOp'.err = objs[o].err /\ pool' = pool)
            /\ ReturnsOn("Preview", h) =>
                  /\ lastOp'.err = objs[o].err /\ lastOp'.out = NoOut
                  /\ objs'[o] = objs[o] /\ pool' = pool
            /\ ReturnsOn("Build", h) =>
                  /\ lastOp'.err = objs[o].err /\ lastOp'.out = NoOut
                  /\ objs'[o].released /\ o \in pool'
\* the error of a builder in use is one Bind recorded
StickyState ==
    \A h \in 1..Len(hnd) :
        (~hnd[h].finished /\ ~objs[hnd[h].obj].released) =>
            objs[hnd[h].obj].err.kind \in BindErrors \cup {"nil"}

\* C35: once Bind has recorded an error in a builder (an odd number of at
\* least 3 arguments, a key that is not a non-empty string), and until the
\* builder is released, Write, Writef and Bind leave its parts, inputs, bag
\* and error as they are, Preview returns that error and does not release
\* the builder, Build returns that error and releases the builder.
C35_StickyError == [](StickyState) /\ [][StickyStep]_vars

\* Bind("a", v, 2, v) failed at its second key, a Write after it was
\* ignored, and Build has returned the error of Bind and released the builder
C35_Witness ==
    /\ lastOp.op = "Build" /\ lastOp.err = ErrBindKey(2)
    /\ hnd # <<>> /\ hnd[1].finished /\ hnd[1].ops = 3
    /\ objs[hnd[1].obj].released /\ hnd[1].obj \in pool
    /\ ~hnd[1].bag.nil

(***************************************************************************)
(* Exec, ScanOne, ScanAll: the builder and the executor.                   *)
(***************************************************************************)
\* the calls of the executor made for handle h
CallsFor(h) == { k \in 1..Len(cursor.calls) : cursor.calls[k].h = h }
\* what Build returns for the statement written through handle h
BuiltFrom(h) ==
    parseCall([parts |-> hnd[h].parts, inputs |-> hnd[h].inputs, bag |-> hnd[h].bag])
RunState ==
    \A h \in 1..Len(hnd) :
        /\ Cardinality(CallsFor(h)) <= 1
        /\ \A k \in CallsFor(h) :
              /\ hnd[h].err = NoErr /\ hnd[h].finished
              /\ cursor.calls[k].out = BuiltFrom(h)
\* the executor is called, once, for a builder that was built without error
\* and is released by then
ExecuteStep ==
    cursor.calls' # cursor.calls =>
        \E g \in policy.goroutines :
            /\ gr[g].pc = "execute" /\ gr[g].ret.err = NoErr
            /\ objs[gr[g].o].released /\ gr[g].o \in pool
            /\ Len(cursor.calls') = Len(cursor.calls) + 1
\* a method returns
ReturnStep ==
    (lastOp' # lastOp /\ lastOp'.op \in RunMethods) =>
        LET h == lastOp'.h IN
        /\ hnd'[h].finished
        /\ objs'[hnd'[h].obj].released /\ hnd'[h].obj \in pool'
        /\ hnd[h].err # NoErr =>
              (lastOp'.err = hnd[h].err /\ { k \in 1..Len(cursor.calls') :
                                               cursor.calls'[k].h = h } = {})
        /\ hnd[h].err = NoErr =>
              Cardinality({ k \in 1..Len(cursor.calls') : cursor.calls'[k].h = h }) = 1

\* C36: ExecContext, ScanOneContext and ScanAllContext do not call the
\* executor when Build fails, call it once otherwise, with what Build
\* returned, and on every path (error of Build, of the executor, of the scan,
\* success) the builder has been released when the method returns.
C36_RunReleases == [](RunState) /\ [][ExecuteStep /\ ReturnStep]_vars

\* ScanAll has returned the error of a scan (NULL into an int) after one
\* call of the executor, the builder released
C36_Witness ==
    /\ lastOp.op = "ScanAll" /\ lastOp.err.kind = "rows.Scan"
    /\ Cardinality(CallsFor(lastOp.h)) = 1
    /\ objs[hnd[lastOp.h].obj].released

(***************************************************************************)
(* What a render copies and what it adds.                                  *)
(***************************************************************************)
Running == pc' \notin {"done", "panic"}
\* what may be written around a token: the separator of an expansion and the
\* parentheses of a row
BeforeToken == { <<>>, <<",", " ">>, <<"(">>, <<",", " ", "(">> }
AfterToken == { <<>>, <<")">> }
\* the buffer grows by one token, with what an expansion writes around it
TokenAdded ==
    /\ n' = n + 1
    /\ \E pre \in BeforeToken, post \in AfterToken :
          buf' = buf \o pre \o writePlaceholder(dialect, n + 1) \o post
\* the end of the placeholder that starts at i: after the name, or after the
\* '}' of its column list
SpanEnd == IF IsBlock THEN readCols(q, PhEnd).k2 ELSE PhEnd
\* outside a placeholder the bytes read are appended as they are
CopyStep ==
    (Scanning /\ ~(state = "sText" /\ IsPlaceholderAt(q, i)) /\ Running) =>
        /\ i' > i /\ i' <= Len(q)
        /\ buf' = buf \o Sub(q, i, i')
        /\ args' = args /\ n' = n /\ pc' = "scan"
\* a placeholder is skipped, and one token written or an expansion begun
PlaceholderStep ==
    (Scanning /\ state = "sText" /\ IsPlaceholderAt(q, i) /\ Running) =>
        /\ state' = "sText"
        /\ \/ /\ pc' = "scan" /\ ~IsBlock /\ i' = SpanEnd
              /\ buf' = buf \o writePlaceholder(dialect, n + 1) /\ n' = n + 1
           \/ /\ pc' \in {"slice", "rows"} /\ (pc' = "rows" <=> IsBlock)
              /\ i' = i /\ buf' = buf /\ n' = n
              /\ blk'.k = SpanEnd
\* an expansion writes tokens, separators and parentheses only, and
\* reading goes on after the placeholder
ExpandStep ==
    (pc \in {"slice", "rows"} /\ Running) =>
        /\ TokenAdded /\ state' = state
        /\ \/ pc' = pc /\ i' = i /\ blk'.k = blk.k
           \/ pc' = "scan" /\ i' = blk.k
\* the text returned is the buffer at the end of the statement
FinishStep ==
    (pc = "scan" /\ pc' = "done" /\ ret'.err = NoErr) =>
        (i = Len(q) /\ ret'.text = buf)

\* C37: a render copies every byte of the template outside its bound
\* placeholders once, unchanged and in order (quotes, escapes, comments,
\* casts, lone ':' and '$' included), and writes in place of a placeholder
\* :name or :name{...} only tokens, the separators ", " and the parentheses
\* of the rows; the text returned is what was written.
C37_TextPreserved ==
    [][CopyStep /\ PlaceholderStep /\ ExpandStep /\ FinishStep]_vars

\* 'x'::a :b in Postgres: the literal and the cast are copied, :b is $1
C37_Witness ==
    /\ Succeeded /\ dialect = "Postgres"
    /\ q = <<"'", "x", "'", ":", ":", "a">> \o PhB
    /\ ret.text = <<"'", "x", "'", ":", ":", "a", " ", "$", "1">>

(***************************************************************************)
(* getScanPlan over the two generations of scanPlanCache: curr and prev    *)
(* map a planKey to the plan stored under it; call and result are the      *)
(* last call and what it returned.                                         *)
(***************************************************************************)
\* "\x1f", the unit separator
US == "US"
\* columnsSignature(cols) from column c on: the names joined by the separator
RECURSIVE SignatureFrom(_, _)
SignatureFrom(cols, c) ==
    IF c > Len(cols) THEN <<>>
    ELSE IF c = 1 THEN cols[c] \o SignatureFrom(cols, c + 1)
    ELSE <<US>> \o cols[c] \o SignatureFrom(cols, c + 1)
columnsSignature(cols) ==
    IF Len(cols) = 0 THEN <<>> ELSE SignatureFrom(cols, 1)
\* canonicalStructType(t): the name of the struct type under the pointers
RECURSIVE canonicalStructType(_)
canonicalStructType(t) == IF t.k = "ptr" THEN canonicalStructType(t.elem) ELSE t.name
planKey(cols, t) == [dstType |-> canonicalStructType(t), sig |-> columnsSignature(cols)]

\* the destination types and the column lists of the calls
MemoTypes == { TStruct("S"), TPtr(TStruct("S")), TStruct("C") }
MemoColumnLists == { <<>>, << <<>> >>, <<nA>>, <<nB, nA>>, << <<>>, nB >>, <<nZ>> }

\* getScanPlan(cols, dstT) as a whole: a hit in curr, a hit in prev that is
\* promoted, or a build that is stored unless it failed
CallGetScanPlan ==
    \E t \in MemoTypes, cols \in MemoColumnLists :
      \E key \in {planKey(cols, t)} :
        /\ call' = [fn |-> "getScanPlan", cols |-> cols, type |-> t,
                    hit |-> key \in DOMAIN curr \cup DOMAIN prev]
        /\ IF key \in DOMAIN curr
           THEN result' = curr[key] /\ UNCHANGED <<curr, prev>>
           ELSE IF key \in DOMAIN prev
           THEN /\ result' = prev[key]
                /\ curr' = Stored(key, prev[key]).curr
                /\ prev' = Stored(key, prev[key]).prev
           ELSE \E p \in {buildScanPlan(cols, canonicalStructType(t))} :
                /\ result' = p
                /\ IF p.err # NoErr THEN UNCHANGED <<curr, prev>>
                   ELSE /\ curr' = Stored(key, p).curr
                        /\ prev' = Stored(key, p).prev
        /\ UNCHANGED <<mapper, handles, plans, mu, cg, age, builder,
                       parseArgs, parseLocals, parseHist>>

InitMemo == IdleParser /\ IdleOthers

SpecMemo == InitMemo /\ [][CallGetScanPlan]_vars

MemoCalled == call.fn = "getScanPlan"
\* what buildScanPlan computes for the columns and the type of the call
Fresh == buildScanPlan(call.cols, canonicalStructType(call.type))
\* the plans in the two generations
CachedKeys == DOMAIN curr \cup DOMAIN prev
Cached(k) == IF k \in DOMAIN curr THEN curr[k] ELSE prev[k]

\* C38: getScanPlan returns the plan buildScanPlan computes for exactly the
\* columns of the call, with one strategy per column; a cache key stands
\* for one column list of its type only, so that the plan under it is the
\* plan of every list with its signature; a failed build is not stored.
C38_Original ==
    /\ MemoCalled =>
          /\ result = Fresh
          /\ result.err = NoErr => Len(result.kinds) = Len(call.cols)
    /\ \A k \in CachedKeys : \A c \in MemoColumnLists :
          columnsSignature(c) = k.sig => Cached(k) = buildScanPlan(c, k.dstType)
    /\ \A k \in CachedKeys : Cached(k).err = NoErr

\* what the code keeps: the plan returned is the one built for some column
\* list with the signature of the call, and no failed build is stored
SameSignature(cols) ==
    { c \in MemoColumnLists : columnsSignature(c) = columnsSignature(cols) }
ActualMemo ==
    /\ MemoCalled =>
          \E c \in SameSignature(call.cols) :
              result = buildScanPlan(c, canonicalStructType(call.type))
    /\ \A k \in CachedKeys : Cached(k).err = NoErr
\* the plan of the one column "" is returned for a result set without columns
EmptyListShared ==
    /\ MemoCalled /\ call.cols = <<>> /\ call.hit
    /\ result.kinds = <<"ckSink">>

(***************************************************************************)
(* What scanAll leaves in the elements of a slice of records.              *)
(***************************************************************************)
\* scanAll over a []T or []*T has returned after its plan was built
AllReturned == AllScanning /\ mpc = "done"
\* the index paths of the leaves of a struct type, through the structs and
\* pointers to structs that are flattened
RECURSIVE LeafPaths(_)
LeafPaths(tname) ==
    UNION { IF shouldFlatten(TypeDefs[tname][j].ft)
            THEN { <<j - 1>> \o p : p \in LeafPaths(StripPtr(TypeDefs[tname][j].ft).name) }
            ELSE { <<j - 1>> } : j \in 1..Len(TypeDefs[tname]) }
\* the leaves some result column is scanned into
MappedPaths ==
    { scanSt.plan.fPath[c] : c \in { x \in 1..Len(cursor.cols) : scanSt.plan.kinds[x] # "ckSink" } }
\* the addresses of the objects a value points to
RECURSIVE Addrs(_)
Addrs(v) ==
    CASE v.kind = "ptr" -> (IF "addr" \in DOMAIN v THEN {v.addr} ELSE {}) \cup Addrs(v.to)
      [] v.kind = "struct" -> UNION { Addrs(v.f[j]) : j \in 1..Len(v.f) }
      [] OTHER -> {}
\* element k as a scan into a zero-valued record leaves it: the leaves no
\* column maps to are zero (or lie under a nil pointer), and every object it
\* points to was allocated after scanAll was called
FromZero(k) ==
    /\ \A p \in LeafPaths(dest.type) \ MappedPaths :
          LeafAt(ElemStruct(k), p) \in {Nil, Zero(TypeAt(dest.type, p))}
    /\ \A a \in Addrs(dest.arr[k]) : a > dest.used

\* C39: after scanAll returns, every element it produced for a []T or []*T
\* was built from a zero-valued record, whatever the slice held before:
\* unmapped fields are zero and the pointer nodes are objects of this call;
\* the slice holds rows of this cursor only.
C39_Original ==
    AllReturned =>
        /\ \A k \in 1..ScannedRows : FromZero(k)
        /\ dest.len <= cursor.pos

\* the capacity the slice came with: a used destination held one element
HadCap == IF dest.used = 0 THEN 0 ELSE 1
\* what the code keeps: the elements of a []*T, and those of a []T beyond
\* the capacity the slice came with, are built from zero-valued records
ActualFromZero ==
    AllReturned =>
        /\ \A k \in 1..ScannedRows : (dest.ptrs \/ k > HadCap) => FromZero(k)
        /\ dest.len <= cursor.pos
\* a []S that held an S takes a row of the one column a: b and c of the
\* element are the pointers of the earlier scan
StaleElement ==
    /\ AllReturned /\ mret = NoErr /\ ~dest.ptrs /\ dest.used = 2
    /\ cursor.cols = <<nA>> /\ dest.len = 1
    /\ dest.arr[1].f[1] = cursor.rows[1][1]
    /\ dest.arr[1].f[2] = Obj(1, IntV(5))

(***************************************************************************)
(* scanAll when the cursor fails between two rows.                         *)
(***************************************************************************)
\* rows.Next() reports no row because the fetch of the next one failed
FetchFails == mpc = "next" /\ dest.mode = "all" /\ ~HasNext /\ cursor.fails
\* scanAll has returned the error of the cursor
FetchFailed == dest.mode = "all" /\ mpc = "done" /\ mret = ErrCursor
\* the leaf of element k for column c holds the value of row k
OwnValue(k, c) ==
    LET x == cursor.rows[k][c]
        leaf == ElemLeaf(k, c)
        ft == TypeAt(dest.type, scanSt.plan.fPath[c])
    IN CASE scanSt.plan.kinds[c] = "ckSink" -> TRUE
         [] scanSt.plan.kinds[c] = "ckValue" -> leaf = x
         [] scanSt.plan.kinds[c] = "ckPtr" ->
               IF x = Nil THEN leaf = NilPtr ELSE leaf.kind = "ptr" /\ leaf.to = x
         [] OTHER ->
               IF ft.k # "ptr" THEN leaf = Scanned(ft.name, x)
               ELSE IF x = Nil THEN leaf = NilPtr
               ELSE leaf.kind = "ptr" /\ leaf.to = Scanned("Upper", x)
\* the destination holds the rows fetched, each with its own values
HoldsRows ==
    /\ dest.len = cursor.pos
    /\ \A k \in 1..dest.len :
          IF dest.type = "int" THEN dest.arr[k] = cursor.rows[k][1]
          ELSE \A c \in 1..Len(cursor.cols) : OwnValue(k, c)
\* the failed fetch ends scanAll with the error of the cursor, the
\* destination as it is and no further fetch
FetchStep ==
    FetchFails =>
        /\ mpc' = "done" /\ mret' = ErrCursor
        /\ dest' = dest /\ cursor'.pos = cursor.pos /\ cursor'.closed
FetchState == FetchFailed => (HoldsRows /\ cursor.pos = Len(cursor.rows))

====
